---- MODULE Spec2Model ----
(***************************************************************************)
(* Model of the incremental comparison engine of src/app.py               *)
(* (CPTPricingAnalyzer.incremental_compare_part and the helpers it calls). *)
(*                                                                         *)
(* Numbers.  Python floats are modelled by exact rationals: every float    *)
(* value v is held as the integer v * Scale, where Scale is a common       *)
(* multiple of every divisor an average or a median can use within the     *)
(* bounds.  Rounding error of IEEE arithmetic is therefore not modelled.   *)
(*                                                                         *)
(* Optional values.  Python's None is the empty sequence << >> and a       *)
(* present value v is << v >>.                                              *)
(***************************************************************************)
EXTENDS Integers, Sequences, FiniteSets, TLC

(***************************************************************************)
(* Bounds of the model.                                                    *)
(***************************************************************************)
\* in_network items one behaviour feeds to incremental_compare_part in all
MaxItems == 3
\* calls of incremental_compare_part in one behaviour
MaxCalls == 2

(***************************************************************************)
(* Limits set in CPTPricingAnalyzer.__init__.  The program sets 2000 and   *)
(* 50; the model scales them down so that a full sample is reachable.      *)
(***************************************************************************)
incremental_sample_limit == 1
incremental_only_in_source2_sample_limit == 1
incremental_only_in_source1_sample_limit == 1

\* size of the bootstrap phase of _P2Quantile (self.n <= 5)
P2Bootstrap == 5

Max2(a, b) == IF a >= b THEN a ELSE b
Min2(a, b) == IF a <= b THEN a ELSE b

None == << >>
Some(v) == << v >>

RECURSIVE GCD(_, _)
GCD(a, b) == IF b = 0 THEN a ELSE GCD(b, a % b)

RECURSIVE LCMUpTo(_)
LCMUpTo(n) == IF n <= 1 THEN 1 ELSE LET l == LCMUpTo(n - 1) IN (l * n) \div GCD(l, n)

\* the largest number of rates one code can accumulate: two per item, and the
\* three of the largest baseline entry
MaxCount == Max2(MaxItems * 2, 3)
Scale == LCMUpTo(MaxCount)

(***************************************************************************)
(* JSON values of negotiated_rate: a number, null, or a string that is not *)
(* a number.                                                               *)
(***************************************************************************)
Num(n) == [kind |-> "num", v |-> n]
JNull == [kind |-> "null", v |-> 0]
JText == [kind |-> "str", v |-> 0]
JNaN == [kind |-> "nan", v |-> 0]

\* _try_float: the float of a finite number, None otherwise
_try_float(value) == IF value.kind = "num" THEN Some(value.v * Scale) ELSE None

\* _to_float: the float of a finite number, the default 0.0 otherwise
_to_float(value) == IF value.kind = "num" THEN value.v * Scale ELSE 0

\* str.strip().lower() on the tokens the model uses
StripLower(s) ==
    CASE s = "Negotiated " -> "negotiated"
      [] s = "negotiated " -> "negotiated"
      [] s = " MAX" -> "max"
      [] s = " " -> ""
      [] OTHER -> s

\* str.strip() on the tokens the model uses
Strip(s) ==
    CASE s = " A" -> "A"
      [] s = " " -> ""
      [] OTHER -> s

\* (price.get('billing_class') or 'unknown').strip() or 'unknown'
BillingClass(price) ==
    LET c == Strip(price.billing_class) IN IF c = "" THEN "unknown" ELSE c

\* dates are day numbers written YYYYMMDD
_parse_date_yyyy_mm_dd(value) ==
    CASE value = "2024-12-31" -> Some(20241231)
      [] value = "2025-01-01" -> Some(20250101)
      [] OTHER -> None

\* str.lower() on the tokens the model uses
Lower(s) ==
    CASE s = "Negotiated " -> "negotiated "
      [] s = " MAX" -> " max"
      [] OTHER -> s

\* faulty variant: a rate that expires on as_of is dropped as well
PassesFilter_DropsOnAsOf(price, negotiated_type, exclude_expired, as_of) ==
    /\ (negotiated_type # "" => StripLower(price.negotiated_type) = negotiated_type)
    /\ (exclude_expired =>
           LET exp == _parse_date_yyyy_mm_dd(price.expiration_date)
           IN ~(exp # None /\ exp[1] <= as_of))

\* the two tests the streaming loops apply to a price before using it
PassesFilter(price, negotiated_type, exclude_expired, as_of) ==
    /\ (negotiated_type # "" => StripLower(price.negotiated_type) = negotiated_type)
    /\ (exclude_expired =>
           LET exp == _parse_date_yyyy_mm_dd(price.expiration_date)
           IN ~(exp # None /\ exp[1] < as_of))

\* _filter_rates
_filter_rates(rates, negotiated_type, exclude_expired, as_of) ==
    SelectSeq(rates, LAMBDA r : PassesFilter(r, StripLower(negotiated_type), exclude_expired, as_of))

(***************************************************************************)
(* Reductions over a rate list (the batch side, used for the baseline).    *)
(***************************************************************************)
RECURSIVE MaxFold(_, _, _)
MaxFold(rates, i, acc) ==
    IF i > Len(rates) THEN acc
    ELSE LET val == _try_float(rates[i].negotiated_rate)
         IN IF val = None THEN MaxFold(rates, i + 1, acc)
            ELSE MaxFold(rates, i + 1,
                   IF val[1] > acc.max
                   THEN [max |-> val[1], billing_class |-> BillingClass(rates[i]), count |-> acc.count + 1]
                   ELSE [acc EXCEPT !.count = @ + 1])

\* _max_rate_with_class: the running maximum starts at 0.0, class 'unknown'
_max_rate_with_class(rates) ==
    MaxFold(rates, 1, [max |-> 0, billing_class |-> "unknown", count |-> 0])

RECURSIVE MinFold(_, _, _)
MinFold(rates, i, acc) ==
    IF i > Len(rates) THEN acc
    ELSE LET val == _try_float(rates[i].negotiated_rate)
         IN IF val = None THEN MinFold(rates, i + 1, acc)
            ELSE MinFold(rates, i + 1,
                   IF acc.min = None \/ val[1] < acc.min[1]
                   THEN [min |-> val, billing_class |-> BillingClass(rates[i]), count |-> acc.count + 1]
                   ELSE [acc EXCEPT !.count = @ + 1])

\* _min_rate_with_class: the running minimum starts absent
_min_rate_with_class(rates) ==
    LET r == MinFold(rates, 1, [min |-> None, billing_class |-> "unknown", count |-> 0])
    IN [min |-> IF r.min = None THEN 0 ELSE r.min[1],
        billing_class |-> r.billing_class, count |-> r.count]

\* the finite values of a rate list, in order
NumericValues(rates) ==
    LET nums == SelectSeq(rates, LAMBDA r : _try_float(r.negotiated_rate) # None)
    IN [i \in 1..Len(nums) |-> _try_float(nums[i].negotiated_rate)[1]]

RECURSIVE SumSeq(_, _)
SumSeq(s, i) == IF i > Len(s) THEN 0 ELSE s[i] + SumSeq(s, i + 1)

\* _rates_summary (count and avg are the fields _rate_for_rule uses)
_rates_summary(rates) ==
    LET vals == NumericValues(rates)
        count == Len(vals)
    IN [count |-> count, avg |-> IF count > 0 THEN SumSeq(vals, 1) \div count ELSE 0]

\* the median of a list of values: sort, take the middle or the mean of the two middles
MedianOf(values) ==
    IF Len(values) = 0 THEN 0
    ELSE LET sorted == SortSeq(values, LAMBDA a, b : a < b)
             mid == Len(sorted) \div 2
         IN IF Len(sorted) % 2 = 1 THEN sorted[mid + 1]
            ELSE (sorted[mid] + sorted[mid + 1]) \div 2

\* _median_rate
_median_rate(rates) == MedianOf(NumericValues(rates))

\* _update_running_summary on a float that is present or absent
_update_running_summary(summary, value) ==
    IF value = None THEN summary
    ELSE [summary EXCEPT !.sum = @ + value[1],
                         !.count = @ + 1,
                         !.min = IF @ = None THEN value ELSE Some(Min2(@[1], value[1])),
                         !.max = IF @ = None THEN value ELSE Some(Max2(@[1], value[1]))]

\* position of a billing class in an insertion-ordered class list, 0 when absent
ClassPos(classes, cls) ==
    IF \E i \in 1..Len(classes) : classes[i].cls = cls
    THEN CHOOSE i \in 1..Len(classes) : classes[i].cls = cls
    ELSE 0

NewRunning(cls) == [cls |-> cls, sum |-> 0, count |-> 0, min |-> None, max |-> None]

\* one step of the grouping loop: create the class on first sight, then update it
AddToClasses(classes, cls, value) ==
    LET withCls == IF ClassPos(classes, cls) = 0 THEN Append(classes, NewRunning(cls)) ELSE classes
        p == ClassPos(withCls, cls)
    IN [withCls EXCEPT ![p] = _update_running_summary(@, value)]

RECURSIVE GroupFold(_, _, _)
GroupFold(entries, i, classes) ==
    IF i > Len(entries) THEN classes
    ELSE GroupFold(entries, i + 1, AddToClasses(classes, BillingClass(entries[i]), entries[i].value))

ClassAvg(c) == IF c.count > 0 THEN c.sum \div c.count ELSE 0

RECURSIVE RepFold(_, _, _)
RepFold(ordered, i, rep) ==
    IF i > Len(ordered) THEN rep
    ELSE LET avg == ClassAvg(ordered[i])
         IN RepFold(ordered, i + 1,
                    IF rep.cls = None \/ avg > rep.avg
                    THEN [cls |-> Some(ordered[i].cls), avg |-> avg]
                    ELSE rep)

\* the grouping and representative-class choice of _rates_summary_by_class,
\* over entries [billing_class, value] whose value is a float or absent
SummaryByClassOf(entries) ==
    LET classes == GroupFold(entries, 1, << >>)
        ordered == SelectSeq(classes, LAMBDA c : c.cls # "unknown")
                     \o SelectSeq(classes, LAMBDA c : c.cls = "unknown")
        rep == RepFold(ordered, 1, [cls |-> None, avg |-> 0])
    IN [classes |-> classes,
        representative_class |-> IF rep.cls = None THEN "unknown" ELSE rep.cls[1],
        representative_avg |-> rep.avg]

\* _rates_summary_by_class on stored rates
_rates_summary_by_class(rates) ==
    SummaryByClassOf([i \in 1..Len(rates) |->
        [billing_class |-> rates[i].billing_class, value |-> _try_float(rates[i].negotiated_rate)]])

RECURSIVE MaxByClassFold(_, _, _)
MaxByClassFold(rates, i, acc) ==
    IF i > Len(rates) THEN acc
    ELSE LET val == _try_float(rates[i].negotiated_rate)
             cls == BillingClass(rates[i])
         IN IF val = None THEN MaxByClassFold(rates, i + 1, acc)
            ELSE MaxByClassFold(rates, i + 1,
                   IF cls \notin DOMAIN acc THEN acc @@ (cls :> val[1])
                   ELSE IF val[1] > acc[cls] THEN [acc EXCEPT ![cls] = val[1]] ELSE acc)

\* _max_rate_by_class: billing_class -> max negotiated_rate of the class
_max_rate_by_class(rates) == MaxByClassFold(rates, 1, << >>)

SupportedBatch == {"max", "min", "avg", "median", "max_avg_by_billing_class"}
MultiValued == {"all_classes", "per_occurrence", "context"}

\* _rate_for_rule raises ValueError for the multi-valued rules
RateForRuleRaises(rule) == rule \in MultiValued

\* _rate_for_rule: (value, billing_class, count) under the rule, after filtering
_rate_for_rule(rates, rule, negotiated_type, exclude_expired, as_of) ==
    LET fr == _filter_rates(rates, negotiated_type, exclude_expired, as_of)
    IN CASE rule = "min" ->
              LET info == _min_rate_with_class(fr)
              IN [value |-> info.min, billing_class |-> info.billing_class, count |-> info.count]
         [] rule = "avg" ->
              LET s == _rates_summary(fr)
              IN [value |-> s.avg, billing_class |-> "unknown", count |-> s.count]
         [] rule = "median" ->
              [value |-> _median_rate(fr), billing_class |-> "unknown", count |-> Len(NumericValues(fr))]
         [] rule = "max_avg_by_billing_class" ->
              LET by == _rates_summary_by_class(fr)
              IN [value |-> by.representative_avg, billing_class |-> by.representative_class,
                  count |-> 0]
         [] OTHER ->
              LET info == _max_rate_with_class(fr)
              IN [value |-> info.max, billing_class |-> info.billing_class, count |-> info.count]

(***************************************************************************)
(* Inputs.                                                                 *)
(***************************************************************************)
Price(rate, cls, nt, exp) ==
    [negotiated_rate |-> rate, billing_class |-> cls, negotiated_type |-> nt, expiration_date |-> exp]

\* the negotiated_prices the items of the model carry
Below == Price(Num(90), "professional", "negotiated", "")
Above == Price(Num(110), "professional", "Negotiated ", "2025-01-01")
Level == Price(Num(100), "institutional", "negotiated", "not a date")
Negative == Price(Num(-5), " ", "negotiated", "")
NotNumeric == Price(JNull, "facility", "negotiated", "")
Lapsed == Price(Num(130), "facility", "fee schedule", "2024-12-31")

\* a description that is JSON null (None), and the descriptions an observed
\* description replaces: (None, '', 'No description')
NullDescription == "<null>"
Placeholders == {NullDescription, "", "No description"}

Item(code, type, prices) ==
    [billing_code |-> code, billing_code_type |-> type, description |-> "Office visit",
     prices |-> prices]

\* in_network items: billing_code as written in the file, its type, the
\* description and the flattened negotiated_rates[*].negotiated_prices[*].
\* A and B are baseline codes, C is not; " A" strips to A; the last two
\* items are not accepted.
Items ==
    { Item("A", "CPT", << Below >>),
      Item("A", "CPT", << Above >>),
      Item("A", "CPT", << Level >>),
      Item("A", "CPT", << NotNumeric, Lapsed >>),
      Item(" A", "CPT", << Below >>),
      Item("B", "CPT", << Below >>),
      Item("B", "CPT", << Negative >>),
      Item("C", "CPT", << Below, Above >>),
      Item("A", "HCPCS", << Above >>),
      Item(" ", "CPT", << Above >>) }

\* the items of the parameter-checking specification
FewItems == { Item("A", "CPT", << Below >>), Item("C", "CPT", << >>) }

Entry(code, description, rates) == [code |-> code, description |-> description, rates |-> rates]

\* the Source Store after the baselines were loaded: name -> entries in
\* insertion order (a dict of code -> {description, rates})
LoadedSources ==
    [ payerB |->
        << Entry("A", "Office visit",
                 << Price(Num(100), "professional", "negotiated", ""),
                    Price(Num(120), "professional", "fee schedule", "2024-12-31"),
                    Price(Num(100), "facility", "negotiated", "") >>),
           Entry("B", "No description",
                 << Price(Num(0), "professional", "negotiated", "") >>) >>,
      payerC |->
        << Entry("A", "Office visit",
                 << Price(Num(100), "professional", "negotiated", "") >>) >> ]

SessionIds == {"s1"}
Today == 20250101

\* the parameters of the calls of the main specification
Baselines == {"payerB"}
Rules == {"max", "min", "avg", "median", "max_avg_by_billing_class",
          "all_classes", "per_occurrence"}
Filters == { [negotiated_type |-> "", exclude_expired |-> FALSE],
             [negotiated_type |-> "negotiated", exclude_expired |-> TRUE] }

\* the parameters of the calls of the parameter-checking specification
\* (payerD is not loaded)
AllSourceNames == {"payerB", "payerC", "payerD"}
RawRules == {"max", " MAX", "", "context"}
RawNegotiatedTypes == {"", "negotiated", "Negotiated "}

Buckets == <<"higher_in_source1", "higher_in_source2", "equal">>
BucketSet == {"higher_in_source1", "higher_in_source2", "equal"}

(***************************************************************************)
(* State.                                                                  *)
(***************************************************************************)
VARIABLES
    cpt_pricing,      \* self.cpt_pricing: source name -> entries
    sessions,         \* self.incremental_compare_sessions: session_id -> state
    persisted,        \* comparison_session_dir: session_id -> saved payload
    call,             \* the running incremental_compare_part call and its locals
    result,           \* what the last finished call returned or raised
    fed,              \* in_network items consumed so far (bounded by MaxItems)
    calls,            \* calls started so far (bounded by MaxCalls)
    prior,            \* history: the session as it was when the running call opened its stream
    source1_rates,    \* history: per session and code, the filtered numeric rates fed
    request,          \* history: the arguments of the last call, normalized as at entry
    cpt_data,         \* the cpt_data dict of the extraction under way: entries in insertion order
    report,           \* the last /compare request and its response
    rate_list,        \* a rate list handed to the reductions
    reduced,          \* the results of the reductions on rate_list, per rule
    response,         \* the last response of the status route or of the fetch route
    url_cache,        \* cache_dir: url -> the bytes fetched from it
    stream,           \* a MultiPartStream, its part files and what was read from it
    threads,          \* the requests served at the same time: thread -> position and locals
    multipart_sessions, \* self.multipart_sessions: session_id -> paths and filenames
    estimator         \* a _P2Quantile estimator and, as history, the values added to it

\* the state of the streaming comparison, of the batch side, of the reductions,
\* of the routes and streams beside them
batch_vars == <<cpt_data, report>>
rate_vars == <<rate_list, reduced, estimator>>
route_vars == <<response, url_cache, stream>>
adapter_vars == <<threads, multipart_sessions>>
vars == <<cpt_pricing, sessions, persisted, call, result, fed, calls, prior, source1_rates, request,
          batch_vars, rate_vars, route_vars, adapter_vars>>

Idle == [pc |-> "idle"]

Has(f, k) == k \in DOMAIN f
Put(f, k, v) == IF k \in DOMAIN f THEN [f EXCEPT ![k] = v] ELSE f @@ (k :> v)
EmptyMap == [x \in {} |-> 0]

\* the codes of a source, and its entry for a code
Codes(entries) == { entries[i].code : i \in 1..Len(entries) }
EntryOf(entries, code) == entries[CHOOSE i \in 1..Len(entries) : entries[i].code = code]

\* {str(k).strip(): v for k, v in baseline_data.items()}: later keys win, the
\* position of a key is that of its first occurrence
RECURSIVE KeyMapFold(_, _, _)
KeyMapFold(entries, i, acc) ==
    IF i > Len(entries) THEN acc
    ELSE LET k == Strip(entries[i].code)
             e == [entries[i] EXCEPT !.code = k]
         IN KeyMapFold(entries, i + 1,
               IF k \in Codes(acc)
               THEN [j \in 1..Len(acc) |-> IF acc[j].code = k THEN e ELSE acc[j]]
               ELSE Append(acc, e))

BaselineKeyMap(entries) == KeyMapFold(entries, 1, << >>)

\* the state dict _get_or_create_incremental_session builds
NewSession(source1_name, baseline_source_name) ==
    LET baseline_data == IF Has(cpt_pricing, baseline_source_name)
                         THEN cpt_pricing[baseline_source_name] ELSE << >>
    IN [ baseline_source |-> baseline_source_name,
         baseline_key_map |-> None,
         compare_rule |-> None,
         negotiated_type |-> None,
         exclude_expired |-> None,
         parts_processed |-> 0,
         last_part |-> 0,
         seen_source1_codes |-> {},
         matched_baseline_codes |-> {},
         only_in_source1_codes |-> {},
         baseline_rate_cache |-> EmptyMap,
         source1_rate_summary |-> EmptyMap,
         code_bucket |-> EmptyMap,
         code_diff_cache |-> EmptyMap,
         code_class_bucket |-> EmptyMap,
         code_class_diff_cache |-> EmptyMap,
         matched_code_classes |-> {},
         sample_by_bucket |-> [b \in BucketSet |-> << >>],
         comparison |->
           [ source1 |-> IF source1_name = "" THEN "Source 1 (parts)" ELSE source1_name,
             source2 |-> baseline_source_name,
             higher_in_source1 |-> << >>,
             higher_in_source2 |-> << >>,
             equal |-> << >>,
             only_in_source1_sample |-> << >>,
             only_in_source2_sample |-> << >>,
             only_in_source1_count |-> 0,
             only_in_source2_count |-> Len(baseline_data),
             total_compared |-> 0,
             total_source1_count |-> 0,
             total_source2 |-> Len(baseline_data),
             higher_in_source1_count |-> 0,
             higher_in_source2_count |-> 0,
             equal_count |-> 0,
             total_higher_in_source1_amount |-> 0,
             total_higher_in_source2_amount |-> 0 ] ]

\* _incremental_state_to_payload
_incremental_state_to_payload(state) ==
    [ comparison |-> state.comparison,
      parts_processed |-> state.parts_processed,
      last_part |-> state.last_part ]

\* _persist_incremental_session_summary: the document written to
\* <session_id>.json, which is the payload and a 'meta' note
_persist_incremental_session_summary(state) ==
    [ comparison |-> state.comparison,
      parts_processed |-> state.parts_processed,
      last_part |-> state.last_part,
      meta |-> "This is a saved summary + samples." ]

(***************************************************************************)
(* Per-code streaming summaries of Source 1.                               *)
(***************************************************************************)
StreamingRules == {"max", "min", "avg", "median", "all_classes",
                   "max_avg_by_billing_class", "per_occurrence"}

\* _init_source1_summary raises ValueError for any other rule
InitSummaryRaises(rule) == rule \notin StreamingRules

\* _init_source1_summary
_init_source1_summary(description, rule) ==
    CASE rule = "max" -> [description |-> description, max |-> 0, billing_class |-> "unknown", count |-> 0]
      [] rule = "min" -> [description |-> description, min |-> None, billing_class |-> "unknown", count |-> 0]
      [] rule = "avg" -> [description |-> description, sum |-> 0, count |-> 0]
      [] rule = "median" -> [description |-> description, p2 |-> [n |-> 0, initial |-> << >>], count |-> 0]
      [] rule = "all_classes" -> [description |-> description, classes |-> EmptyMap]
      [] rule = "max_avg_by_billing_class" -> [description |-> description, classes |-> << >>]
      [] OTHER -> [description |-> description]

\* _P2Quantile.add while the estimator is in its bootstrap phase (n <= 5)
P2Add(p2, x) == [n |-> p2.n + 1, initial |-> Append(p2.initial, x)]

\* _P2Quantile.value in the bootstrap phase: the exact median of the samples
P2Value(p2) == MedianOf(p2.initial)

\* _update_source1_summary
_update_source1_summary(summary, price, rule) ==
    LET rate_val == _try_float(price.negotiated_rate)
        billing_class == BillingClass(price)
    IN CASE rule = "max" ->
              IF rate_val = None THEN summary
              ELSE IF rate_val[1] > summary.max
                   THEN [summary EXCEPT !.count = @ + 1, !.max = rate_val[1], !.billing_class = billing_class]
                   ELSE [summary EXCEPT !.count = @ + 1]
         [] rule = "min" ->
              IF rate_val = None THEN summary
              ELSE IF summary.min = None \/ rate_val[1] < summary.min[1]
                   THEN [summary EXCEPT !.count = @ + 1, !.min = rate_val, !.billing_class = billing_class]
                   ELSE [summary EXCEPT !.count = @ + 1]
         [] rule = "avg" ->
              IF rate_val = None THEN summary
              ELSE [summary EXCEPT !.sum = @ + rate_val[1], !.count = @ + 1]
         [] rule = "median" ->
              IF rate_val = None THEN summary
              ELSE [summary EXCEPT !.count = @ + 1, !.p2 = P2Add(@, rate_val[1])]
         [] rule = "max_avg_by_billing_class" ->
              [summary EXCEPT !.classes = AddToClasses(@, billing_class, rate_val)]
         [] rule = "all_classes" ->
              IF rate_val = None THEN summary
              ELSE IF ~Has(summary.classes, billing_class)
                   THEN [summary EXCEPT !.classes = @ @@ (billing_class :> [max |-> rate_val[1], count |-> 1])]
                   ELSE [summary EXCEPT !.classes[billing_class] =
                            [max |-> IF rate_val[1] > @.max THEN rate_val[1] ELSE @.max,
                             count |-> @.count + 1]]
         [] OTHER -> summary

\* _finalize_source1_value for the scalar rules
_finalize_source1_value(summary, rule) ==
    CASE rule = "max" ->
            [value |-> summary.max, billing_class |-> summary.billing_class, count |-> summary.count]
      [] rule = "min" ->
            [value |-> IF summary.min = None THEN 0 ELSE summary.min[1],
             billing_class |-> summary.billing_class, count |-> summary.count]
      [] rule = "avg" ->
            [value |-> IF summary.count > 0 THEN summary.sum \div summary.count ELSE 0,
             billing_class |-> "unknown", count |-> summary.count]
      [] rule = "median" ->
            [value |-> P2Value(summary.p2), billing_class |-> "unknown", count |-> summary.count]
      [] rule = "max_avg_by_billing_class" ->
            LET counted == SelectSeq(summary.classes, LAMBDA c : c.count > 0)
                by == SummaryByClassOf([i \in 1..Len(counted) |->
                         [billing_class |-> counted[i].cls,
                          value |-> Some(counted[i].sum \div counted[i].count)]])
            IN [value |-> by.representative_avg, billing_class |-> by.representative_class, count |-> 0]

\* the prices of an item that pass the two tests of the streaming loop, in order
FilteredPrices(item, c) ==
    SelectSeq(item.prices, LAMBDA price :
        PassesFilter(price, IF c.negotiated_type = None THEN "" ELSE c.negotiated_type[1],
                     c.exclude_expired, c.as_of))

RECURSIVE FeedPrices(_, _, _, _)
FeedPrices(summary, prices, i, rule) ==
    IF i > Len(prices) THEN summary
    ELSE FeedPrices(_update_source1_summary(summary, prices[i], rule), prices, i + 1, rule)

\* faulty variant: every description that is not a placeholder is taken
UpgradeDescription_Always(summary, description1) ==
    IF description1 \notin Placeholders
    THEN [summary EXCEPT !.description = description1]
    ELSE summary

\* description upgrade of an existing summary
UpgradeDescription(summary, description1) ==
    IF summary.description \in Placeholders /\ description1 \notin Placeholders
    THEN [summary EXCEPT !.description = description1]
    ELSE summary

(***************************************************************************)
(* Bucket transition of one key (the block repeated in the per_occurrence, *)
(* all_classes and scalar branches of incremental_compare_part).           *)
(***************************************************************************)
BucketOf(rate1_val, rate2_val) ==
    IF rate1_val > rate2_val THEN "higher_in_source1"
    ELSE IF rate2_val > rate1_val THEN "higher_in_source2"
    ELSE "equal"

\* faulty variant: the previous bucket's count is not given back
SubtractPrevious_KeepsCount(comparison, prev_bucket, prev_diff) ==
    CASE prev_bucket = Some("higher_in_source1") ->
            [comparison EXCEPT !.total_higher_in_source1_amount = @ - Max2(prev_diff, 0)]
      [] prev_bucket = Some("higher_in_source2") ->
            [comparison EXCEPT !.total_higher_in_source2_amount = @ - Max2(0 - prev_diff, 0)]
      [] OTHER -> comparison

\* faulty variant: the previous bucket's amount is not given back
SubtractPrevious_KeepsAmount(comparison, prev_bucket, prev_diff) ==
    CASE prev_bucket = Some("higher_in_source1") ->
            [comparison EXCEPT !.higher_in_source1_count = @ - 1]
      [] prev_bucket = Some("higher_in_source2") ->
            [comparison EXCEPT !.higher_in_source2_count = @ - 1]
      [] prev_bucket = Some("equal") ->
            [comparison EXCEPT !.equal_count = @ - 1]
      [] OTHER -> comparison

\* subtract the key's previous contribution from the counts and amounts
SubtractPrevious(comparison, prev_bucket, prev_diff) ==
    CASE prev_bucket = Some("higher_in_source1") ->
            [comparison EXCEPT !.higher_in_source1_count = @ - 1,
                               !.total_higher_in_source1_amount = @ - Max2(prev_diff, 0)]
      [] prev_bucket = Some("higher_in_source2") ->
            [comparison EXCEPT !.higher_in_source2_count = @ - 1,
                               !.total_higher_in_source2_amount = @ - Max2(0 - prev_diff, 0)]
      [] prev_bucket = Some("equal") ->
            [comparison EXCEPT !.equal_count = @ - 1]
      [] OTHER -> comparison

\* faulty variant: the lower Source 1 value adds its signed difference
AddCurrent_Signed(comparison, rate1_val, rate2_val) ==
    IF rate1_val > rate2_val
    THEN [comparison EXCEPT !.higher_in_source1_count = @ + 1,
                            !.total_higher_in_source1_amount = @ + (rate1_val - rate2_val)]
    ELSE IF rate2_val > rate1_val
    THEN [comparison EXCEPT !.higher_in_source2_count = @ + 1,
                            !.total_higher_in_source2_amount = @ + (rate1_val - rate2_val)]
    ELSE [comparison EXCEPT !.equal_count = @ + 1]

\* faulty variant: a key whose Source 1 rate is lower is counted as equal
AddCurrent_NoLower(comparison, rate1_val, rate2_val) ==
    IF rate1_val > rate2_val
    THEN [comparison EXCEPT !.higher_in_source1_count = @ + 1,
                            !.total_higher_in_source1_amount = @ + (rate1_val - rate2_val)]
    ELSE [comparison EXCEPT !.equal_count = @ + 1]

\* add the key's new contribution
AddCurrent(comparison, rate1_val, rate2_val) ==
    IF rate1_val > rate2_val
    THEN [comparison EXCEPT !.higher_in_source1_count = @ + 1,
                            !.total_higher_in_source1_amount = @ + (rate1_val - rate2_val)]
    ELSE IF rate2_val > rate1_val
    THEN [comparison EXCEPT !.higher_in_source2_count = @ + 1,
                            !.total_higher_in_source2_amount = @ + (rate2_val - rate1_val)]
    ELSE [comparison EXCEPT !.equal_count = @ + 1]

SampleHas(sample, key) == \E i \in 1..Len(sample) : sample[i].key = key

\* faulty variant: the key is not removed from the other buckets' maps
UpdateSamples_NoRemoval(sample_by_bucket, key, bucket, comp_item) ==
    [b \in BucketSet |->
        IF b # bucket
        THEN sample_by_bucket[b]
        ELSE IF SampleHas(sample_by_bucket[b], key)
             THEN [i \in 1..Len(sample_by_bucket[b]) |->
                     IF sample_by_bucket[b][i].key = key THEN comp_item ELSE sample_by_bucket[b][i]]
             ELSE IF Len(sample_by_bucket[b]) < incremental_sample_limit
                  THEN Append(sample_by_bucket[b], comp_item)
                  ELSE sample_by_bucket[b]]

\* the sample maps after the key was assigned to bucket: the key leaves the
\* other buckets' maps; in its own it is overwritten, or added while there is room
UpdateSamples(sample_by_bucket, key, bucket, comp_item) ==
    [b \in BucketSet |->
        IF b # bucket
        THEN SelectSeq(sample_by_bucket[b], LAMBDA e : e.key # key)
        ELSE IF SampleHas(sample_by_bucket[b], key)
             THEN [i \in 1..Len(sample_by_bucket[b]) |->
                     IF sample_by_bucket[b][i].key = key THEN comp_item ELSE sample_by_bucket[b][i]]
             ELSE IF Len(sample_by_bucket[b]) < incremental_sample_limit
                  THEN Append(sample_by_bucket[b], comp_item)
                  ELSE sample_by_bucket[b]]

CompItem(key, rate1_val, rate2_val) ==
    [key |-> key, source1_rate |-> rate1_val, source2_rate |-> rate2_val,
     difference |-> rate1_val - rate2_val]

\* the transition of a per-code key (code_bucket / code_diff_cache)
TransitionCode(state, code, rate1_val, rate2_val) ==
    LET prev_bucket == IF Has(state.code_bucket, code) THEN Some(state.code_bucket[code]) ELSE None
        prev_diff == IF Has(state.code_diff_cache, code) THEN state.code_diff_cache[code] ELSE 0
        bucket == BucketOf(rate1_val, rate2_val)
    IN [state EXCEPT
          !.comparison = AddCurrent(SubtractPrevious(@, prev_bucket, prev_diff), rate1_val, rate2_val),
          !.code_bucket = Put(@, code, bucket),
          !.code_diff_cache = Put(@, code, rate1_val - rate2_val),
          !.sample_by_bucket = UpdateSamples(@, code, bucket, CompItem(code, rate1_val, rate2_val))]

\* faulty variant: the key is bucketed but not recorded in matched_code_classes
TransitionCodeClass_NoMark(state, key, rate1_val, rate2_val) ==
    LET prev_bucket == IF Has(state.code_class_bucket, key) THEN Some(state.code_class_bucket[key]) ELSE None
        prev_diff == IF Has(state.code_class_diff_cache, key) THEN state.code_class_diff_cache[key] ELSE 0
        bucket == BucketOf(rate1_val, rate2_val)
    IN [state EXCEPT
          !.comparison = AddCurrent(SubtractPrevious(
                            [@ EXCEPT !.total_compared = Cardinality(state.matched_code_classes \cup {key})],
                            prev_bucket, prev_diff), rate1_val, rate2_val),
          !.code_class_bucket = Put(@, key, bucket),
          !.code_class_diff_cache = Put(@, key, rate1_val - rate2_val),
          !.sample_by_bucket = UpdateSamples(@, key, bucket, CompItem(key, rate1_val, rate2_val))]

\* the transition of a code|billing_class key (code_class_bucket / code_class_diff_cache)
TransitionCodeClass(state, key, rate1_val, rate2_val) ==
    LET prev_bucket == IF Has(state.code_class_bucket, key) THEN Some(state.code_class_bucket[key]) ELSE None
        prev_diff == IF Has(state.code_class_diff_cache, key) THEN state.code_class_diff_cache[key] ELSE 0
        bucket == BucketOf(rate1_val, rate2_val)
    IN [state EXCEPT
          !.matched_code_classes = @ \cup {key},
          !.comparison = AddCurrent(SubtractPrevious(
                            [@ EXCEPT !.total_compared = Cardinality(state.matched_code_classes \cup {key})],
                            prev_bucket, prev_diff), rate1_val, rate2_val),
          !.code_class_bucket = Put(@, key, bucket),
          !.code_class_diff_cache = Put(@, key, rate1_val - rate2_val),
          !.sample_by_bucket = UpdateSamples(@, key, bucket, CompItem(key, rate1_val, rate2_val))]

Init ==
    /\ cpt_pricing = LoadedSources
    /\ sessions = EmptyMap
    /\ persisted = EmptyMap
    /\ call = Idle
    /\ result = "none"
    /\ fed = 0
    /\ calls = 0
    /\ prior = None
    /\ source1_rates = EmptyMap
    /\ request = None
    /\ cpt_data = << >>
    /\ report = None
    /\ rate_list = << >>
    /\ reduced = None
    /\ response = None
    /\ url_cache = EmptyMap
    /\ threads = EmptyMap
    /\ multipart_sessions = EmptyMap
    /\ estimator = None
    /\ stream = None


(***************************************************************************)
(* incremental_compare_part, entry: baseline check, session lookup or      *)
(* creation, key map, parameter checks and recording (up to the stream     *)
(* being opened).                                                          *)
(***************************************************************************)
NormalizeRule(compare_rule) == StripLower(IF compare_rule = "" THEN "max" ELSE compare_rule)

NormalizeNegotiatedType(negotiated_type) ==
    LET nt == StripLower(negotiated_type) IN IF nt = "" THEN None ELSE Some(nt)

\* the test that rejects a changed compare_rule
RuleMismatch(state, compare_rule) ==
    state.compare_rule # None /\ state.compare_rule # Some(compare_rule)

\* the test that rejects a changed negotiated_type
NegotiatedTypeMismatch(state, negotiated_type) ==
    state.negotiated_type # negotiated_type /\ state.negotiated_type # None

\* the test that rejects a changed exclude_expired
ExcludeExpiredMismatch(state, exclude_expired) ==
    state.exclude_expired # None /\ state.exclude_expired # Some(exclude_expired)

\* faulty variant: an existing session is returned whatever baseline is named
GetOrCreateRaises_Never(session_id, baseline_source_name) == FALSE

\* _get_or_create_incremental_session raises ValueError
GetOrCreateRaises(session_id, baseline_source_name) ==
    Has(sessions, session_id) /\ sessions[session_id].baseline_source # baseline_source_name

\* faulty variant: an existing session forgets the codes it has seen
ExistingSession_ForgetsSeen(state, source1_name) ==
    [state EXCEPT !.seen_source1_codes = {}]

\* the existing session, with the source name of the call when one is given
ExistingSession(state, source1_name) ==
    IF source1_name # ""
    THEN [state EXCEPT !.comparison.source1 = source1_name]
    ELSE state

\* _get_or_create_incremental_session: the session it returns
_get_or_create_incremental_session(session_id, source1_name, baseline_source_name) ==
    IF Has(sessions, session_id)
    THEN ExistingSession(sessions[session_id], source1_name)
    ELSE NewSession(source1_name, baseline_source_name)

\* the key map is built once per session
WithKeyMap(state, baseline_data) ==
    IF state.baseline_key_map = None
    THEN [state EXCEPT !.baseline_key_map = Some(BaselineKeyMap(baseline_data)),
                       !.comparison.total_source2 = Len(BaselineKeyMap(baseline_data))]
    ELSE state

\* the parameters of the call are recorded in the session
RecordParameters(state, compare_rule, negotiated_type, exclude_expired) ==
    [state EXCEPT !.compare_rule = Some(compare_rule),
                  !.negotiated_type = negotiated_type,
                  !.exclude_expired = Some(exclude_expired)]

BeginPart(session_id, source1_name, baseline_source_name, raw_rule, raw_negotiated_type, raw_exclude_expired, as_of) ==
    /\ UNCHANGED <<batch_vars, rate_vars, route_vars, adapter_vars>>
    /\ call.pc = "idle"
    /\ calls < MaxCalls
    /\ calls' = calls + 1
    /\ request' = Some([session_id |-> session_id,
                         baseline_source |-> baseline_source_name,
                         compare_rule |-> NormalizeRule(raw_rule),
                         negotiated_type |-> NormalizeNegotiatedType(raw_negotiated_type),
                         exclude_expired |-> raw_exclude_expired])
    /\ IF ~Has(cpt_pricing, baseline_source_name)
       THEN /\ result' = "Baseline source not loaded."
            /\ UNCHANGED <<sessions, call, prior>>
       ELSE IF GetOrCreateRaises(session_id, baseline_source_name)
       THEN /\ result' = "baseline_source cannot change for an existing session_id."
            /\ UNCHANGED <<sessions, call, prior>>
       ELSE LET compare_rule == NormalizeRule(raw_rule)
                negotiated_type == NormalizeNegotiatedType(raw_negotiated_type)
                exclude_expired == raw_exclude_expired
                state == WithKeyMap(
                           _get_or_create_incremental_session(session_id, source1_name, baseline_source_name),
                           cpt_pricing[baseline_source_name])
            IN IF RuleMismatch(state, compare_rule)
               THEN /\ result' = "compare_rule cannot change for an existing session_id."
                    /\ sessions' = Put(sessions, session_id, state)
                    /\ UNCHANGED <<call, prior>>
               ELSE IF NegotiatedTypeMismatch(state, negotiated_type)
               THEN /\ result' = "negotiated_type cannot change for an existing session_id."
                    /\ sessions' = Put(sessions, session_id, state)
                    /\ UNCHANGED <<call, prior>>
               ELSE IF ExcludeExpiredMismatch(state, exclude_expired)
               THEN /\ result' = "exclude_expired cannot change for an existing session_id."
                    /\ sessions' = Put(sessions, session_id, state)
                    /\ UNCHANGED <<call, prior>>
               ELSE /\ result' = "running"
                    /\ call' = [pc |-> "streaming", session_id |-> session_id,
                                compare_rule |-> compare_rule, negotiated_type |-> negotiated_type,
                                exclude_expired |-> exclude_expired, as_of |-> as_of,
                                part |-> calls + 1]
                    /\ sessions' = Put(sessions, session_id,
                                       RecordParameters(state, compare_rule, negotiated_type,
                                                        exclude_expired))
                    /\ prior' = Some(sessions'[session_id])
    /\ UNCHANGED <<cpt_pricing, persisted, fed, source1_rates>>

(***************************************************************************)
(* incremental_compare_part, one iteration of the loop over the items of   *)
(* the part.                                                               *)
(***************************************************************************)
Accepted(item) == Strip(item.billing_code) # "" /\ item.billing_code_type = "CPT"

\* first sight of a code: seen_source1_codes and total_source1_count
MarkSeen(state, code) ==
    IF code \in state.seen_source1_codes THEN state
    ELSE [state EXCEPT !.seen_source1_codes = @ \cup {code},
                       !.comparison.total_source1_count = @ + 1]

MarkMatched(state, code) ==
    [state EXCEPT !.matched_baseline_codes = @ \cup {code},
                  !.comparison.total_compared = Cardinality(state.matched_baseline_codes \cup {code})]

\* baseline_rate_cache is filled on the first match of the code
WithBaselineCache(state, code, rule, c) ==
    IF Has(state.baseline_rate_cache, code) THEN state
    ELSE LET rates == EntryOf(state.baseline_key_map[1], code).rates
         IN IF rule = "all_classes"
            THEN [state EXCEPT !.baseline_rate_cache =
                     @ @@ (code :> [classes |-> _max_rate_by_class(rates)])]
            ELSE [state EXCEPT !.baseline_rate_cache =
                     @ @@ (code :> _rate_for_rule(rates, rule,
                                      IF c.negotiated_type = None THEN "" ELSE c.negotiated_type[1],
                                      c.exclude_expired, c.as_of))]

\* the classes of a code that have a value on both sides
ClassesInBoth(state, code) ==
    DOMAIN state.source1_rate_summary[code].classes
        \cap DOMAIN state.baseline_rate_cache[code].classes

Orders(S) == { f \in [1..Cardinality(S) -> S] : \A i, j \in 1..Cardinality(S) : f[i] = f[j] => i = j }

\* faulty variant: the difference of the class is recorded for every class
\* of the code bucketed so far
ClassStep_SharedDiff(state, code, billing_class) ==
    LET next == TransitionCodeClass(state, <<code, billing_class>>,
                                    state.source1_rate_summary[code].classes[billing_class].max,
                                    state.baseline_rate_cache[code].classes[billing_class])
    IN [next EXCEPT !.code_class_diff_cache =
           [key \in DOMAIN @ |-> IF key[1] = code THEN @[<<code, billing_class>>] ELSE @[key]]]

\* one class of a code that both sides have
ClassStep(state, code, billing_class) ==
    TransitionCodeClass(state, <<code, billing_class>>,
                        state.source1_rate_summary[code].classes[billing_class].max,
                        state.baseline_rate_cache[code].classes[billing_class])

RECURSIVE ClassLoop(_, _, _, _)
ClassLoop(state, code, order, i) ==
    IF i > Len(order) THEN state
    ELSE ClassLoop(ClassStep(state, code, order[i]), code, order, i + 1)

\* the sample of codes that are not in the baseline
AppendOnlyInSource1(state, entry) ==
    [state EXCEPT
       !.only_in_source1_codes = @ \cup {entry.code},
       !.comparison.only_in_source1_count = @ + 1,
       !.comparison.only_in_source1_sample =
           IF Len(@) < incremental_only_in_source1_sample_limit THEN Append(@, entry) ELSE @]

\* best-effort sample rate: the mean of all negotiated_prices of the item
ItemAvg(item) ==
    IF Len(item.prices) = 0 THEN 0
    ELSE SumSeq([i \in 1..Len(item.prices) |-> _to_float(item.prices[i].negotiated_rate)], 1)
            \div Len(item.prices)

\* the matched-code part of the loop body up to the bucket transition
MatchedPrefix(state, item, code, rule, c) ==
    LET withSummary ==
            IF ~Has(state.source1_rate_summary, code)
            THEN [state EXCEPT !.source1_rate_summary =
                     @ @@ (code :> _init_source1_summary(item.description, rule))]
            ELSE [state EXCEPT !.source1_rate_summary[code] = UpgradeDescription(@, item.description)]
        fedSummary ==
            [withSummary EXCEPT !.source1_rate_summary[code] =
                FeedPrices(@, FilteredPrices(item, c), 1, rule)]
    IN WithBaselineCache(MarkMatched(fedSummary, code), code, rule, c)

\* the numeric (value, class) pairs of the prices an item feeds to a summary
FedRates(item, c) ==
    LET f == FilteredPrices(item, c)
    IN { <<_try_float(f[i].negotiated_rate)[1], BillingClass(f[i])>> :
           i \in { j \in 1..Len(f) : _try_float(f[j].negotiated_rate) # None } }

RecordFed(code, item, c) ==
    LET k == <<c.session_id, code>>
    IN source1_rates' = Put(source1_rates, k,
                            (IF Has(source1_rates, k) THEN source1_rates[k] ELSE {})
                               \cup FedRates(item, c))

\* the numeric rates a median summary would hold after the item
MedianRoom(state, item, code, c) ==
    LET had == IF Has(state.source1_rate_summary, code)
               THEN state.source1_rate_summary[code].count ELSE 0
        f == FilteredPrices(item, c)
    IN had + Cardinality({ j \in 1..Len(f) : _try_float(f[j].negotiated_rate) # None }) <= P2Bootstrap

Raise(state) ==
    /\ sessions' = [sessions EXCEPT ![call.session_id] = state]
    /\ call' = Idle
    /\ prior' = None
    /\ result' = "Error during incremental comparison"
    /\ UNCHANGED source1_rates

Continue(state) ==
    /\ sessions' = [sessions EXCEPT ![call.session_id] = state]
    /\ UNCHANGED <<call, prior, result>>

\* the session after one accepted item of the scalar rules and all_classes
\* (one result per iteration order of the class set)
LoopBody(state, item, c) ==
    LET rule == c.compare_rule
        code == Strip(item.billing_code)
        seen == MarkSeen(state, code)
    IN IF code \in Codes(state.baseline_key_map[1])
       THEN LET pre == MatchedPrefix(seen, item, code, rule, c)
            IN IF rule = "all_classes"
               THEN { ClassLoop(pre, code, order, 1) : order \in Orders(ClassesInBoth(pre, code)) }
               ELSE { TransitionCode(pre, code,
                         _finalize_source1_value(pre.source1_rate_summary[code], rule).value,
                         pre.baseline_rate_cache[code].value) }
       ELSE IF code \in seen.only_in_source1_codes
            THEN { seen }
            ELSE { AppendOnlyInSource1(seen,
                      [code |-> code, description |-> item.description, rate |-> ItemAvg(item)]) }

\* loop body of the scalar rules and all_classes
ProcessItem(item) ==
    /\ UNCHANGED <<batch_vars, rate_vars, route_vars, adapter_vars>>
    /\ call.pc = "streaming"
    /\ call.compare_rule # "per_occurrence"
    /\ fed < MaxItems
    /\ fed' = fed + 1
    /\ UNCHANGED <<cpt_pricing, persisted, calls, request>>
    /\ LET state == sessions[call.session_id]
           rule == call.compare_rule
           code == Strip(item.billing_code)
           seen == MarkSeen(state, code)
       IN IF ~Accepted(item)
          THEN UNCHANGED <<sessions, call, prior, result, source1_rates>>
          ELSE IF code \in Codes(state.baseline_key_map[1])
          THEN IF ~Has(seen.source1_rate_summary, code) /\ InitSummaryRaises(rule)
               THEN Raise(seen)
               ELSE /\ rule = "median" => MedianRoom(seen, item, code, call)
                    /\ RecordFed(code, item, call)
                    /\ \E next \in LoopBody(state, item, call) : Continue(next)
          ELSE /\ UNCHANGED source1_rates
               /\ \E next \in LoopBody(state, item, call) : Continue(next)

RECURSIVE OccurrenceFold(_, _, _)
OccurrenceFold(prices, i, acc) ==
    IF i > Len(prices) THEN acc
    ELSE LET val == _to_float(prices[i].negotiated_rate)
         IN OccurrenceFold(prices, i + 1,
               IF val > acc.max
               THEN [max |-> val, billing_class |-> BillingClass(prices[i])]
               ELSE acc)

\* the highest filtered rate of one item, starting from 0.0 / 'unknown'
OccurrenceMax(item, c) ==
    OccurrenceFold(FilteredPrices(item, c), 1, [max |-> 0, billing_class |-> "unknown"])

\* per_occurrence keeps, per code, the highest occurrence seen so far
WithOccurrence(state, code, description1, occ) ==
    IF ~Has(state.source1_rate_summary, code)
    THEN [state EXCEPT !.source1_rate_summary =
             @ @@ (code :> [description |-> description1, max |-> occ.max,
                            billing_class |-> occ.billing_class])]
    ELSE [state EXCEPT !.source1_rate_summary[code] =
             LET d == UpgradeDescription(@, description1)
             IN IF occ.max > d.max
                THEN [d EXCEPT !.max = occ.max, !.billing_class = occ.billing_class]
                ELSE d]

\* the session after one accepted item of the per_occurrence branch
OccurrenceBody(state, item, c) ==
    LET code == Strip(item.billing_code)
        occ == OccurrenceMax(item, c)
        summed == WithOccurrence(MarkSeen(state, code), code, item.description, occ)
    IN IF code \notin Codes(state.baseline_key_map[1])
       THEN IF code \in summed.only_in_source1_codes
            THEN summed
            ELSE AppendOnlyInSource1(summed,
                    [code |-> code, billing_class |-> occ.billing_class,
                     description |-> item.description, rate |-> occ.max])
       ELSE LET pre == WithBaselineCache(MarkMatched(summed, code), code, "max", c)
            IN TransitionCode(pre, code, pre.source1_rate_summary[code].max,
                              pre.baseline_rate_cache[code].value)

\* loop body of the per_occurrence branch
ProcessOccurrence(item) ==
    /\ UNCHANGED <<batch_vars, rate_vars, route_vars, adapter_vars>>
    /\ call.pc = "streaming"
    /\ call.compare_rule = "per_occurrence"
    /\ fed < MaxItems
    /\ fed' = fed + 1
    /\ UNCHANGED <<cpt_pricing, persisted, calls, request>>
    /\ LET state == sessions[call.session_id]
           code == Strip(item.billing_code)
           occ == OccurrenceMax(item, call)
           summed == WithOccurrence(MarkSeen(state, code), code, item.description, occ)
       IN IF ~Accepted(item)
          THEN UNCHANGED <<sessions, call, prior, result, source1_rates>>
          ELSE /\ IF code \in Codes(state.baseline_key_map[1])
                  THEN RecordFed(code, item, call)
                  ELSE UNCHANGED source1_rates
               /\ Continue(OccurrenceBody(state, item, call))

\* faulty variant: a failure while the part is read saves the session as well
StreamFail_Persists ==
    /\ UNCHANGED <<batch_vars, rate_vars, route_vars, adapter_vars>>
    /\ call.pc = "streaming"
    /\ call' = Idle
    /\ prior' = None
    /\ result' = "Error during incremental comparison"
    /\ persisted' = Put(persisted, call.session_id,
                        _persist_incremental_session_summary(sessions[call.session_id]))
    /\ UNCHANGED <<cpt_pricing, sessions, fed, calls, request, source1_rates>>

\* the parser raises while reading the part (truncated or malformed stream, or
\* the part cannot be opened): the except clause returns the error
StreamFail ==
    /\ UNCHANGED <<batch_vars, rate_vars, route_vars, adapter_vars>>
    /\ call.pc = "streaming"
    /\ call' = Idle
    /\ prior' = None
    /\ result' = "Error during incremental comparison"
    /\ UNCHANGED <<cpt_pricing, sessions, persisted, fed, calls, request, source1_rates>>

(***************************************************************************)
(* incremental_compare_part, after the loop: sample lists, baseline-only   *)
(* metrics, part counter, persisted snapshot.                              *)
(***************************************************************************)
RECURSIVE Source2SampleLoop(_, _, _, _, _)
Source2SampleLoop(baseline, i, matched, rule, c) ==
    IF i > Len(baseline) THEN << >>
    ELSE IF baseline[i].code \in matched THEN Source2SampleLoop(baseline, i + 1, matched, rule, c)
    ELSE LET entry == [code |-> baseline[i].code, description |-> baseline[i].description,
                       rate |-> _rate_for_rule(baseline[i].rates, rule,
                                   IF c.negotiated_type = None THEN "" ELSE c.negotiated_type[1],
                                   c.exclude_expired, c.as_of).value]
         IN IF 1 >= incremental_only_in_source2_sample_limit THEN << entry >>
            ELSE LET rest == Source2SampleLoop(baseline, i + 1, matched, rule, c)
                 IN << entry >> \o SubSeq(rest, 1, Min2(Len(rest), incremental_only_in_source2_sample_limit - 1))

\* faulty variant: only_in_source2_count keeps the value it had
TailCounts_StaleCount(state) ==
    [state EXCEPT
       !.comparison.higher_in_source1 = state.sample_by_bucket["higher_in_source1"],
       !.comparison.higher_in_source2 = state.sample_by_bucket["higher_in_source2"],
       !.comparison.equal = state.sample_by_bucket["equal"],
       !.comparison.only_in_source2_sample = << >>]

\* the statements between the loop and the baseline-only sample loop
TailCounts(state) ==
    [state EXCEPT
       !.comparison.higher_in_source1 = state.sample_by_bucket["higher_in_source1"],
       !.comparison.higher_in_source2 = state.sample_by_bucket["higher_in_source2"],
       !.comparison.equal = state.sample_by_bucket["equal"],
       !.comparison.only_in_source2_count =
           Max2(0, Len(state.baseline_key_map[1]) - Cardinality(state.matched_baseline_codes)),
       !.comparison.only_in_source2_sample = << >>]

\* the rule the tail hands to _rate_for_rule
TailRule(rule) == IF rule = "per_occurrence" THEN "max" ELSE rule

\* _rate_for_rule raises in the sample loop when a baseline code is unmatched
TailRaises(state, rule) ==
    /\ RateForRuleRaises(TailRule(rule))
    /\ Codes(state.baseline_key_map[1]) \ state.matched_baseline_codes # {}

\* the session after the tail of a part that succeeds
TailState(state, c) ==
    [TailCounts(state) EXCEPT
       !.comparison.only_in_source2_sample =
           Source2SampleLoop(state.baseline_key_map[1], 1,
               state.matched_baseline_codes, TailRule(c.compare_rule), c),
       !.parts_processed = @ + 1,
       !.last_part = c.part]

EndPart ==
    /\ UNCHANGED <<batch_vars, rate_vars, route_vars, adapter_vars>>
    /\ call.pc = "streaming"
    /\ UNCHANGED <<cpt_pricing, fed, calls, request, source1_rates>>
    /\ call' = Idle
    /\ prior' = None
    /\ LET state == sessions[call.session_id]
           counted == TailCounts(state)
       IN IF TailRaises(state, call.compare_rule)
          THEN /\ sessions' = [sessions EXCEPT ![call.session_id] = counted]
               /\ result' = "ValueError"
               /\ UNCHANGED persisted
          ELSE LET done == TailState(state, call)
               IN /\ sessions' = [sessions EXCEPT ![call.session_id] = done]
                  /\ persisted' = Put(persisted, call.session_id, _persist_incremental_session_summary(done))
                  /\ result' = "Success"

\* the client of the main specification sends every part of a session with
\* the parameters of its first part
RepeatsParameters(session_id, rule, f) ==
    (Has(sessions, session_id) /\ sessions[session_id].compare_rule # None) =>
        /\ sessions[session_id].compare_rule = Some(rule)
        /\ sessions[session_id].negotiated_type = NormalizeNegotiatedType(f.negotiated_type)
        /\ sessions[session_id].exclude_expired = Some(f.exclude_expired)

Next ==
    \/ \E session_id \in SessionIds, baseline \in Baselines, rule \in Rules, f \in Filters :
          /\ RepeatsParameters(session_id, rule, f)
          /\ BeginPart(session_id, "Payer A", baseline, rule, f.negotiated_type, f.exclude_expired, Today)
    \/ \E item \in Items : ProcessItem(item)
    \/ \E item \in Items : ProcessOccurrence(item)
    \/ StreamFail
    \/ EndPart

Spec == Init /\ [][Next]_vars

\* the same operations under every combination of call parameters, with few items
NextParams ==
    \/ \E session_id \in SessionIds, source1_name \in {"", "Payer A"}, baseline \in AllSourceNames,
          rule \in RawRules, nt \in RawNegotiatedTypes, ex \in BOOLEAN :
          BeginPart(session_id, source1_name, baseline, rule, nt, ex, Today)
    \/ \E item \in FewItems : ProcessItem(item)
    \/ StreamFail
    \/ EndPart

SpecParams == Init /\ [][NextParams]_vars

(***************************************************************************)
(* Properties.                                                             *)
(***************************************************************************)
PerCodeRules == {"max", "min", "avg", "median", "max_avg_by_billing_class", "per_occurrence"}

IsPerCode(state) == state.compare_rule # None /\ state.compare_rule[1] \in PerCodeRules
IsAllClasses(state) == state.compare_rule = Some("all_classes")

RECURSIVE SumOver(_, _)
SumOver(f, keys) ==
    IF keys = {} THEN 0
    ELSE LET k == CHOOSE x \in keys : TRUE IN f[k] + SumOver(f, keys \ {k})

BucketCountsSum(state) ==
    state.comparison.higher_in_source1_count + state.comparison.higher_in_source2_count
        + state.comparison.equal_count

\* the bucket map and the diff map the session's rule uses
BucketMap(state) == IF IsAllClasses(state) THEN state.code_class_bucket ELSE state.code_bucket
DiffMap(state) == IF IsAllClasses(state) THEN state.code_class_diff_cache ELSE state.code_diff_cache

AfterSuccess == call.pc = "idle" /\ result = "Success"

\* C1: under a per-code rule every matched code has exactly one bucket in
\* code_bucket, and the three bucket counts add up to the number of matched
\* codes (each count being the number of codes recorded in that bucket).
C1_OneBucketPerMatchedCode ==
    \A sid \in DOMAIN sessions :
        LET state == sessions[sid]
        IN IsPerCode(state) =>
             /\ DOMAIN state.code_bucket = state.matched_baseline_codes
             /\ \A code \in state.matched_baseline_codes : state.code_bucket[code] \in BucketSet
             /\ BucketCountsSum(state) = Cardinality(state.matched_baseline_codes)
             /\ state.comparison.higher_in_source1_count =
                   Cardinality({c \in DOMAIN state.code_bucket : state.code_bucket[c] = "higher_in_source1"})
             /\ state.comparison.higher_in_source2_count =
                   Cardinality({c \in DOMAIN state.code_bucket : state.code_bucket[c] = "higher_in_source2"})
             /\ state.comparison.equal_count =
                   Cardinality({c \in DOMAIN state.code_bucket : state.code_bucket[c] = "equal"})

\* two parts succeeded and left two matched codes in two different buckets
C1_Witness ==
    /\ AfterSuccess
    /\ \E sid \in DOMAIN sessions :
          /\ IsPerCode(sessions[sid])
          /\ sessions[sid].parts_processed = 2
          /\ Cardinality(sessions[sid].matched_baseline_codes) = 2
          /\ sessions[sid].comparison.higher_in_source1_count = 1
          /\ sessions[sid].comparison.equal_count = 1

\* C2: the two amounts are the sums, over the matched keys, of the positive
\* and of the negative part of the key's stored signed difference.
C2_AmountsAreSumsOfDiffs ==
    \A sid \in DOMAIN sessions :
        LET state == sessions[sid]
            diffs == DiffMap(state)
        IN /\ state.comparison.total_higher_in_source1_amount =
                 SumOver([k \in DOMAIN diffs |-> Max2(diffs[k], 0)], DOMAIN diffs)
           /\ state.comparison.total_higher_in_source2_amount =
                 SumOver([k \in DOMAIN diffs |-> Max2(0 - diffs[k], 0)], DOMAIN diffs)

\* a key's difference changed sign during the running part
C2_Witness ==
    /\ call.pc = "streaming"
    /\ prior # None
    /\ \E k \in DOMAIN DiffMap(prior[1]) :
          /\ DiffMap(prior[1])[k] < 0
          /\ DiffMap(sessions[call.session_id])[k] > 0
          /\ sessions[call.session_id].comparison.total_higher_in_source1_amount > 0

\* C3: total_compared is the number of matched codes under the per-code rules
\* and the number of matched code|class keys under all_classes, where it also
\* equals the sum of the three bucket counts.
C3_TotalCompared ==
    \A sid \in DOMAIN sessions :
        LET state == sessions[sid]
        IN /\ IsPerCode(state) =>
                state.comparison.total_compared = Cardinality(state.matched_baseline_codes)
           /\ IsAllClasses(state) =>
                /\ state.comparison.total_compared = Cardinality(state.matched_code_classes)
                /\ state.comparison.total_compared = BucketCountsSum(state)

\* C3 as stated, read after every successfully processed part only
C3_AfterSuccess == AfterSuccess => C3_TotalCompared

\* C4: after a successfully processed part only_in_source2_count is the number
\* of baseline codes less the number of matched codes, no sampled code is a
\* matched code, and the sample is within its cap.
C4_OnlyInSource2 ==
    AfterSuccess =>
      \A sid \in DOMAIN sessions :
          LET state == sessions[sid]
              sample == state.comparison.only_in_source2_sample
          IN state.parts_processed > 0 /\ state.last_part = calls =>
               /\ state.comparison.only_in_source2_count =
                     Cardinality(Codes(state.baseline_key_map[1]))
                        - Cardinality(state.matched_baseline_codes)
               /\ \A i \in 1..Len(sample) : sample[i].code \notin state.matched_baseline_codes
               /\ Len(sample) <= incremental_only_in_source2_sample_limit

\* a part succeeded with one baseline code matched and the other one sampled
C4_Witness ==
    /\ AfterSuccess
    /\ \E sid \in DOMAIN sessions :
          /\ sessions[sid].matched_baseline_codes = {"A"}
          /\ sessions[sid].comparison.only_in_source2_count = 1
          /\ Len(sessions[sid].comparison.only_in_source2_sample) = 1
          /\ sessions[sid].comparison.only_in_source2_sample[1].code = "B"

SampleKeys(sample) == { sample[i].key : i \in 1..Len(sample) }

\* keys of the sample maps are distinct, per map
SampleKeysDistinct(sample) ==
    \A i, j \in 1..Len(sample) : sample[i].key = sample[j].key => i = j

\* C5, state part: each sample map holds at most incremental_sample_limit
\* keys, no key is in two maps, and a sampled key is assigned to the bucket
\* whose map holds it.
C5_SamplesState ==
    \A sid \in DOMAIN sessions :
        LET state == sessions[sid]
            samples == state.sample_by_bucket
        IN /\ \A b \in BucketSet :
                /\ Len(samples[b]) <= incremental_sample_limit
                /\ SampleKeysDistinct(samples[b])
                /\ \A k \in SampleKeys(samples[b]) :
                      Has(BucketMap(state), k) /\ BucketMap(state)[k] = b
           /\ \A b1, b2 \in BucketSet :
                b1 # b2 => SampleKeys(samples[b1]) \cap SampleKeys(samples[b2]) = {}

\* C5, step part: a key enters a sample map only if the map had room, and a
\* key leaves a sample map only by leaving the bucket (no eviction).
C5_SamplesStep ==
    \A sid \in DOMAIN sessions :
        \A b \in BucketSet :
            LET old == sessions[sid].sample_by_bucket[b]
                new == sessions'[sid].sample_by_bucket[b]
            IN /\ Len(old) >= incremental_sample_limit => SampleKeys(new) \subseteq SampleKeys(old)
               /\ \A k \in SampleKeys(old) :
                     BucketMap(sessions'[sid])[k] = b => k \in SampleKeys(new)

\* C5: the sample maps are bounded, disjoint, consistent with the bucket
\* assignment, and never evict.
C5_Samples == []C5_SamplesState /\ [][C5_SamplesStep]_vars

\* a bucket's sample map is full and a second key of that bucket is not in it
C5_Witness ==
    \E sid \in DOMAIN sessions :
        \E b \in BucketSet :
            LET state == sessions[sid]
            IN /\ Len(state.sample_by_bucket[b]) = incremental_sample_limit
               /\ \E k \in DOMAIN BucketMap(state) :
                     BucketMap(state)[k] = b /\ k \notin SampleKeys(state.sample_by_bucket[b])

ParamErrors ==
    { "compare_rule cannot change for an existing session_id.",
      "negotiated_type cannot change for an existing session_id.",
      "exclude_expired cannot change for an existing session_id." }

Recorded(state) == <<state.compare_rule, state.negotiated_type, state.exclude_expired>>

\* C6: once a session has processed its first part, a call on its baseline
\* whose normalized compare_rule, negotiated_type or exclude_expired differs
\* from the recorded value returns a parameter-mismatch error and leaves the
\* recorded parameters as they were.
C6_MismatchRejected ==
    [][ calls' # calls =>
        LET r == request'[1] IN
          ( /\ Has(sessions, r.session_id)
            /\ sessions[r.session_id].parts_processed > 0
            /\ r.baseline_source = sessions[r.session_id].baseline_source
            /\ Recorded(sessions[r.session_id]) #
                 <<Some(r.compare_rule), r.negotiated_type, Some(r.exclude_expired)>> )
          => ( /\ result' \in ParamErrors
               /\ Recorded(sessions'[r.session_id]) = Recorded(sessions[r.session_id]) ) ]_vars

\* the data of a session that a later call must not reset
SessionData(state) ==
    << state.baseline_source, state.parts_processed, state.seen_source1_codes,
       state.matched_baseline_codes, state.only_in_source1_codes, state.source1_rate_summary,
       state.baseline_rate_cache, state.code_bucket, state.code_diff_cache,
       state.code_class_bucket, state.code_class_diff_cache, state.matched_code_classes,
       state.sample_by_bucket, [state.comparison EXCEPT !.source1 = ""] >>

ZeroCounts(state) ==
    /\ state.comparison.total_source1_count = 0
    /\ state.comparison.total_compared = 0
    /\ state.comparison.higher_in_source1_count = 0
    /\ state.comparison.higher_in_source2_count = 0
    /\ state.comparison.equal_count = 0
    /\ state.comparison.only_in_source1_count = 0
    /\ state.comparison.total_higher_in_source1_amount = 0
    /\ state.comparison.total_higher_in_source2_amount = 0
    /\ state.parts_processed = 0

\* C7: a call naming an existing session_id keeps the session's data when the
\* baseline is the session's baseline_source, and fails changing nothing when
\* it is another loaded source; a call naming an unknown session_id creates a
\* session with zero counts whose only_in_source2_count is the baseline size.
C7_GetOrCreate ==
    [][ (calls' # calls /\ Has(cpt_pricing, request'[1].baseline_source)) =>
        LET sid == request'[1].session_id
            b == request'[1].baseline_source
        IN IF Has(sessions, sid)
           THEN IF b = sessions[sid].baseline_source
                THEN SessionData(sessions'[sid]) = SessionData(sessions[sid])
                ELSE /\ sessions' = sessions
                     /\ result' = "baseline_source cannot change for an existing session_id."
                     /\ call' = call
           ELSE /\ Has(sessions', sid)
                /\ ZeroCounts(sessions'[sid])
                /\ sessions'[sid].comparison.only_in_source2_count = Len(cpt_pricing[b])
                /\ sessions'[sid].baseline_source = b ]_vars

\* a session that has processed a part rejected a call naming another baseline
C7_Witness ==
    /\ result = "baseline_source cannot change for an existing session_id."
    /\ \E sid \in DOMAIN sessions :
          sessions[sid].parts_processed > 0 /\ sessions[sid].comparison.total_source1_count > 0

\* C8: a part that fails while its stream is being read leaves the session
\* as it was when the call began: sets, summaries, bucket maps, counts,
\* amounts and samples.
C8_FailedPartAtomic ==
    [][ ( /\ call.pc = "streaming"
          /\ call'.pc = "idle"
          /\ result' = "Error during incremental comparison" )
        => SessionData(sessions'[call.session_id]) = SessionData(prior[1]) ]_vars

\* the largest element of a non-empty set of numbers
TrueMax(S) == CHOOSE v \in S : \A w \in S : w <= v

\* the numeric Source 1 rates fed so far for a code of a session
Source1Values(sid, code) ==
    IF Has(source1_rates, <<sid, code>>) THEN { p[1] : p \in source1_rates[<<sid, code>>] } ELSE {}

\* the numeric baseline rates of a code that pass the session's filter
BaselineValues(state, code) ==
    LET rates == EntryOf(state.baseline_key_map[1], code).rates
    IN { _try_float(rates[i].negotiated_rate)[1] :
           i \in { j \in 1..Len(rates) :
                     /\ _try_float(rates[j].negotiated_rate) # None
                     /\ PassesFilter(rates[j],
                                     IF state.negotiated_type = None THEN "" ELSE state.negotiated_type[1],
                                     state.exclude_expired[1], Today) } }

\* C9: under rule max, after a successful part, a matched code with numeric
\* rates on both sides is in higher_in_source1 iff the maximum of its filtered
\* Source 1 rates so far is above the baseline maximum, in higher_in_source2
\* iff it is below, in equal otherwise; and the counts are those of the
\* bucket map, so a code that moved has left its old bucket.
C9_MaxBucket ==
    AfterSuccess =>
      \A sid \in DOMAIN sessions :
        LET state == sessions[sid]
        IN state.compare_rule = Some("max") =>
             /\ \A code \in DOMAIN state.code_bucket :
                   (Source1Values(sid, code) # {} /\ BaselineValues(state, code) # {}) =>
                      state.code_bucket[code] =
                         BucketOf(TrueMax(Source1Values(sid, code)), TrueMax(BaselineValues(state, code)))
             /\ \A b \in BucketSet :
                   state.comparison[b \o "_count"] =
                      Cardinality({c \in DOMAIN state.code_bucket : state.code_bucket[c] = b})

\* the code|class keys whose class has a numeric rate on both sides
ClassesOnBothSides(sid, state) ==
    UNION { { <<code, p[2]>> : p \in
                { q \in (IF Has(source1_rates, <<sid, code>>) THEN source1_rates[<<sid, code>>] ELSE {}) :
                    LET rates == EntryOf(state.baseline_key_map[1], code).rates
                    IN \E i \in 1..Len(rates) :
                          /\ _try_float(rates[i].negotiated_rate) # None
                          /\ BillingClass(rates[i]) = q[2] } }
            : code \in Codes(state.baseline_key_map[1]) }

\* C10: under all_classes, matched_code_classes is exactly the set of
\* code|class keys whose class has a numeric rate both in the Source 1 rates
\* fed so far and in the baseline rates of the code; only these keys are
\* bucketed, and only they contribute to the bucket counts.
C10_MatchedCodeClasses ==
    \A sid \in DOMAIN sessions :
        LET state == sessions[sid]
        IN (IsAllClasses(state) /\ state.baseline_key_map # None) =>
             /\ state.matched_code_classes = ClassesOnBothSides(sid, state)
             /\ DOMAIN state.code_class_bucket = ClassesOnBothSides(sid, state)
             /\ DOMAIN state.code_class_diff_cache = ClassesOnBothSides(sid, state)
             /\ BucketCountsSum(state) = Cardinality(ClassesOnBothSides(sid, state))

\* code A was fed a professional and an institutional rate, its baseline has
\* professional and facility rates, and the one matched pair is counted once
C10_Witness ==
    /\ AfterSuccess
    /\ \E sid \in DOMAIN sessions :
          /\ IsAllClasses(sessions[sid])
          /\ sessions[sid].matched_code_classes = {<<"A", "professional">>}
          /\ Has(source1_rates, <<sid, "A">>)
          /\ \E p \in source1_rates[<<sid, "A">>] : p[2] = "institutional"
          /\ \E p \in source1_rates[<<sid, "A">>] : p[2] = "professional"
          /\ BucketCountsSum(sessions[sid]) = 1

(***************************************************************************)
(* Two sessions fed the same items in the same order with the same         *)
(* parameters against the same baseline: s1 and s2 begin and end their     *)
(* parts together, and s2 may in addition end a part and begin the next    *)
(* one between two items.                                                  *)
(***************************************************************************)
TwinIds == {"s1", "s2"}

\* incremental_compare_part up to the opening of the stream, for a call whose
\* parameters are those of the session
OpenPart(state, baseline_source_name, compare_rule, negotiated_type, exclude_expired) ==
    RecordParameters(WithKeyMap(state, cpt_pricing[baseline_source_name]),
                     compare_rule, negotiated_type, exclude_expired)

\* the call record of s2: its parts are numbered separately
SecondCall(c) == [c EXCEPT !.part = c.part2]

TwinBegin(rule, f) ==
    /\ UNCHANGED <<batch_vars, rate_vars, route_vars, adapter_vars>>
    /\ call.pc = "idle"
    /\ calls < MaxCalls
    /\ calls' = calls + 1
    /\ \A sid \in TwinIds : RepeatsParameters(sid, rule, f)
    /\ sessions' = [sid \in TwinIds |->
                       OpenPart(_get_or_create_incremental_session(sid, "Payer A", "payerB"), "payerB",
                                NormalizeRule(rule), NormalizeNegotiatedType(f.negotiated_type),
                                f.exclude_expired)]
    /\ call' = [pc |-> "twin", session_id |-> "s1", compare_rule |-> NormalizeRule(rule),
                negotiated_type |-> NormalizeNegotiatedType(f.negotiated_type),
                exclude_expired |-> f.exclude_expired, as_of |-> Today,
                part |-> calls + 1, part2 |-> calls + 1]
    /\ result' = "running"
    /\ UNCHANGED <<cpt_pricing, persisted, fed, prior, source1_rates, request>>

\* the results of the loop body for one session
TwinBody(state, item, c) ==
    IF ~Accepted(item) THEN { state }
    ELSE IF c.compare_rule = "per_occurrence" THEN { OccurrenceBody(state, item, c) }
    ELSE LoopBody(state, item, c)

TwinItem(item) ==
    /\ UNCHANGED <<batch_vars, rate_vars, route_vars, adapter_vars>>
    /\ call.pc = "twin"
    /\ fed < MaxItems
    /\ fed' = fed + 1
    /\ (call.compare_rule = "median" /\ Accepted(item)
          /\ Strip(item.billing_code) \in Codes(sessions["s1"].baseline_key_map[1]))
       => MedianRoom(sessions["s1"], item, Strip(item.billing_code), call)
    /\ \E next1 \in TwinBody(sessions["s1"], item, call),
          next2 \in TwinBody(sessions["s2"], item, SecondCall(call)) :
          sessions' = [sessions EXCEPT !["s1"] = next1, !["s2"] = next2]
    /\ UNCHANGED <<cpt_pricing, persisted, call, result, calls, prior, source1_rates, request>>

\* s2 alone ends its part successfully and begins the next one
TwinCut ==
    /\ UNCHANGED <<batch_vars, rate_vars, route_vars, adapter_vars>>
    /\ call.pc = "twin"
    /\ calls < MaxCalls
    /\ calls' = calls + 1
    /\ ~TailRaises(sessions["s2"], call.compare_rule)
    /\ LET done == TailState(sessions["s2"], SecondCall(call))
       IN /\ persisted' = Put(persisted, "s2", _persist_incremental_session_summary(done))
          /\ sessions' = [sessions EXCEPT !["s2"] =
                             OpenPart(ExistingSession(done, "Payer A"), "payerB", call.compare_rule,
                                      call.negotiated_type, call.exclude_expired)]
    /\ call' = [call EXCEPT !.part2 = calls + 1]
    /\ UNCHANGED <<cpt_pricing, result, fed, prior, source1_rates, request>>

\* the session and the saved payloads after the tail of one session's part
TwinTail(state, c) ==
    IF TailRaises(state, c.compare_rule) THEN TailCounts(state) ELSE TailState(state, c)

TwinEnd ==
    /\ UNCHANGED <<batch_vars, rate_vars, route_vars, adapter_vars>>
    /\ call.pc = "twin"
    /\ call' = Idle
    /\ sessions' = [sessions EXCEPT !["s1"] = TwinTail(@, call), !["s2"] = TwinTail(@, SecondCall(call))]
    /\ IF TailRaises(sessions["s1"], call.compare_rule) \/ TailRaises(sessions["s2"], call.compare_rule)
       THEN /\ result' = "ValueError"
            /\ UNCHANGED persisted
       ELSE /\ result' = "Success"
            /\ persisted' = [sid \in TwinIds |-> _persist_incremental_session_summary(sessions'[sid])]
    /\ UNCHANGED <<cpt_pricing, fed, calls, prior, source1_rates, request>>

NextTwin ==
    \/ \E rule \in Rules, f \in Filters : TwinBegin(rule, f)
    \/ \E item \in Items : TwinItem(item)
    \/ TwinCut
    \/ TwinEnd

SpecTwin == Init /\ [][NextTwin]_vars

\* the counts and amounts of a session
FinalCounts(state) ==
    << state.comparison.total_source1_count, state.comparison.total_compared,
       state.comparison.higher_in_source1_count, state.comparison.higher_in_source2_count,
       state.comparison.equal_count, state.comparison.only_in_source1_count,
       state.comparison.only_in_source2_count,
       state.comparison.total_higher_in_source1_amount,
       state.comparison.total_higher_in_source2_amount >>

\* both sessions have just ended a part successfully
TwinDone == call.pc = "idle" /\ result = "Success" /\ DOMAIN sessions = TwinIds

\* C11: for one ordered sequence of items, the counts and amounts of the
\* session after its last part are the same however the sequence was cut
\* into parts (s2 is cut where s1 is not).
C11_PartBoundaries ==
    TwinDone => FinalCounts(sessions["s2"]) = FinalCounts(sessions["s1"])

\* s2 processed more parts than s1, and a code seen before the cut was seen
\* again after it and changed bucket
C11_Witness ==
    /\ TwinDone
    /\ sessions["s2"].parts_processed > sessions["s1"].parts_processed
    /\ sessions["s1"].comparison.total_source1_count = 2
    /\ sessions["s1"].comparison.only_in_source1_count = 1
    /\ sessions["s1"].comparison.higher_in_source1_count = 1
    /\ fed = MaxItems

\* C12: two sessions that processed the same parts in the same order with
\* the same parameters against the same baseline end every part with the
\* same counts, amounts and bucket of every key.
C12_Replay ==
    (TwinDone /\ sessions["s2"].parts_processed = sessions["s1"].parts_processed) =>
        /\ FinalCounts(sessions["s2"]) = FinalCounts(sessions["s1"])
        /\ sessions["s2"].code_bucket = sessions["s1"].code_bucket
        /\ sessions["s2"].code_class_bucket = sessions["s1"].code_class_bucket
        /\ sessions["s2"].code_diff_cache = sessions["s1"].code_diff_cache
        /\ sessions["s2"].code_class_diff_cache = sessions["s1"].code_class_diff_cache

\* both sessions ended two parts, under all_classes, with two classes of one
\* code bucketed
C12_Witness ==
    /\ TwinDone
    /\ sessions["s1"].parts_processed = 2
    /\ sessions["s2"].parts_processed = 2
    /\ IsAllClasses(sessions["s1"])
    /\ Cardinality(sessions["s1"].matched_code_classes) >= 2

(***************************************************************************)
(* The batch side: a source is extracted item by item into cpt_data, which *)
(* is then stored under a name; /compare reports on two stored sources.    *)
(***************************************************************************)
\* billing_code_modifier of a price or rate, [] when it has none
Modifiers(rate) ==
    IF "billing_code_modifier" \in DOMAIN rate THEN rate.billing_code_modifier ELSE << >>

WithModifiers(price, modifiers) ==
    [negotiated_rate |-> price.negotiated_rate, billing_class |-> price.billing_class,
     negotiated_type |-> price.negotiated_type, expiration_date |-> price.expiration_date,
     billing_code_modifier |-> modifiers]

Described(code, description, prices) ==
    [billing_code |-> code, billing_code_type |-> "CPT", description |-> description,
     prices |-> prices]

\* the items of the extractions: A and B are codes of payerB, C is not
BatchItems ==
    { Described("A", "", << Below >>),
      Described("A", "No description", << WithModifiers(Level, << "TC", " ", "26" >>) >>),
      Described("A", "Office visit", << Above, Lapsed >>),
      Described(" A", "Clinic visit", << NotNumeric >>),
      Described("B", NullDescription, << WithModifiers(Below, << "26" >>) >>),
      Described("C", "Office visit", << Negative >>),
      Item("A", "HCPCS", << Above >>) }

\* the rate _add_cpt_entry stores for a price
StoredRate(price) == WithModifiers(price, Modifiers(price))

\* _add_cpt_entry: the dict after the item
_add_cpt_entry(item, data) ==
    LET billing_code == Strip(item.billing_code)
        rates == [i \in 1..Len(item.prices) |-> StoredRate(item.prices[i])]
    IN IF item.billing_code_type # "CPT" \/ billing_code = "" THEN data
       ELSE IF billing_code \in Codes(data)
       THEN [i \in 1..Len(data) |->
               IF data[i].code = billing_code
               THEN UpgradeDescription([data[i] EXCEPT !.rates = @ \o rates], item.description)
               ELSE data[i]]
       ELSE Append(data, Entry(billing_code, item.description, rates))

\* one iteration of the loop of extract_cpt_pricing
AddEntry(item) ==
    /\ fed < MaxItems
    /\ fed' = fed + 1
    /\ cpt_data' = _add_cpt_entry(item, cpt_data)
    /\ UNCHANGED <<cpt_pricing, sessions, persisted, call, result, calls, prior, source1_rates,
                   request, report, rate_vars, route_vars, adapter_vars>>

\* the extraction ends and its dict is stored under the name
StoreSource(source_name) ==
    /\ cpt_pricing' = Put(cpt_pricing, source_name, cpt_data)
    /\ cpt_data' = << >>
    /\ UNCHANGED <<sessions, persisted, call, result, fed, calls, prior, source1_rates,
                   request, report, rate_vars, route_vars, adapter_vars>>

\* the order of the modifiers the model uses
ModifierRank(m) == IF m = "26" THEN 1 ELSE 2

\* _context_key: (billing_class, sorted non-empty stripped modifiers)
_context_key(rate) ==
    LET stripped == [i \in 1..Len(Modifiers(rate)) |-> Strip(Modifiers(rate)[i])]
    IN << BillingClass(rate),
          SortSeq(SelectSeq(stripped, LAMBDA m : m # ""),
                  LAMBDA a, b : ModifierRank(a) < ModifierRank(b)) >>

RECURSIVE MaxByContextFold(_, _, _)
MaxByContextFold(rates, i, out) ==
    IF i > Len(rates) THEN out
    ELSE LET val == _try_float(rates[i].negotiated_rate)
             key == _context_key(rates[i])
         IN IF val = None THEN MaxByContextFold(rates, i + 1, out)
            ELSE MaxByContextFold(rates, i + 1,
                   IF key \notin DOMAIN out THEN out @@ (key :> val[1])
                   ELSE IF val[1] > out[key] THEN [out EXCEPT ![key] = val[1]] ELSE out)

\* _max_rate_by_context: (billing_class, modifiers) -> max negotiated_rate
_max_rate_by_context(rates) == MaxByContextFold(rates, 1, << >>)

\* the comparison dict before the loop; the lists hold the key and the rates
\* of their items
NewComparison(source1_name, source2_name, rule, total_source1, total_source2) ==
    [source1 |-> source1_name, source2 |-> source2_name, compare_rule |-> rule,
     higher_in_source1 |-> << >>, higher_in_source2 |-> << >>, equal |-> << >>,
     only_in_source1 |-> << >>, only_in_source2 |-> << >>,
     total_compared |-> 0, total_source1 |-> total_source1, total_source2 |-> total_source2,
     total_higher_in_source1_amount |-> 0, total_higher_in_source2_amount |-> 0]

\* faulty variant: a key whose rates are equal is appended to no list
Place_DropsEqual(comparison, key, rate1, rate2) ==
    LET item == [key |-> key, source1_rate |-> rate1, source2_rate |-> rate2,
                 difference |-> rate1 - rate2]
    IN IF rate1 > rate2
       THEN [comparison EXCEPT !.total_compared = @ + 1,
                               !.higher_in_source1 = Append(@, item),
                               !.total_higher_in_source1_amount = @ + (rate1 - rate2)]
       ELSE IF rate2 > rate1
       THEN [comparison EXCEPT !.total_compared = @ + 1,
                               !.higher_in_source2 = Append(@, item),
                               !.total_higher_in_source2_amount = @ + (rate2 - rate1)]
       ELSE [comparison EXCEPT !.total_compared = @ + 1]

\* a compared key: counted, its item built and appended to one list
Place(comparison, key, rate1, rate2) ==
    LET item == [key |-> key, source1_rate |-> rate1, source2_rate |-> rate2,
                 difference |-> rate1 - rate2]
    IN IF rate1 > rate2
       THEN [comparison EXCEPT !.total_compared = @ + 1,
                               !.higher_in_source1 = Append(@, item),
                               !.total_higher_in_source1_amount = @ + (rate1 - rate2)]
       ELSE IF rate2 > rate1
       THEN [comparison EXCEPT !.total_compared = @ + 1,
                               !.higher_in_source2 = Append(@, item),
                               !.total_higher_in_source2_amount = @ + (rate2 - rate1)]
       ELSE [comparison EXCEPT !.total_compared = @ + 1, !.equal = Append(@, item)]

\* a number as the report carries it
Reported(value) == [kind |-> "num", v |-> value]

\* the 'rate' the scalar loop reports for a code of one source: the
\* negotiated_rate of the first stored rate as it was stored, 0 without rates
FirstRate(rates) ==
    IF rates = << >> THEN Reported(0)
    ELSE IF rates[1].negotiated_rate.kind = "num"
    THEN Reported(rates[1].negotiated_rate.v * Scale)
    ELSE rates[1].negotiated_rate

OnlyIn1(comparison, key, rate) ==
    [comparison EXCEPT !.only_in_source1 = Append(@, [key |-> key, rate |-> rate])]
OnlyIn2(comparison, key, rate) ==
    [comparison EXCEPT !.only_in_source2 = Append(@, [key |-> key, rate |-> rate])]

\* one iteration order of a set
SeqOf(S) == CHOOSE order \in Orders(S) : TRUE

\* one iteration order of set(source1_data.keys()) | set(source2_data.keys())
AllCodes(source1_data, source2_data) ==
    LET first == [i \in 1..Len(source1_data) |-> source1_data[i].code]
        second == [i \in 1..Len(source2_data) |-> source2_data[i].code]
    IN first \o SelectSeq(second, LAMBDA c : c \notin Codes(source1_data))

\* the loop of compare_pricing over all_codes
RECURSIVE ScalarFold(_, _, _, _, _, _, _, _)
ScalarFold(comparison, codes, i, source1_data, source2_data, rule, f, as_of) ==
    IF i > Len(codes) THEN comparison
    ELSE LET code == codes[i]
             in1 == code \in Codes(source1_data)
             in2 == code \in Codes(source2_data)
             next ==
               IF in1 /\ in2
               THEN Place(comparison, << code >>,
                          _rate_for_rule(EntryOf(source1_data, code).rates, rule, f.negotiated_type,
                                         f.exclude_expired, as_of).value,
                          _rate_for_rule(EntryOf(source2_data, code).rates, rule, f.negotiated_type,
                                         f.exclude_expired, as_of).value)
               ELSE IF in1
               THEN OnlyIn1(comparison, << code >>, FirstRate(EntryOf(source1_data, code).rates))
               ELSE OnlyIn2(comparison, << code >>, FirstRate(EntryOf(source2_data, code).rates))
         IN ScalarFold(next, codes, i + 1, source1_data, source2_data, rule, f, as_of)

\* key -> max rate of the key: per billing class under all_classes, per
\* context under context
MaxByKey(rates, rule) ==
    IF rule = "context" THEN _max_rate_by_context(rates) ELSE _max_rate_by_class(rates)

\* the inner loop over the keys of a code that both sources have
RECURSIVE KeyFold(_, _, _, _, _, _)
KeyFold(comparison, code, keys, i, s1_keys, s2_keys) ==
    IF i > Len(keys) THEN comparison
    ELSE LET key == keys[i]
             next ==
               IF key \in DOMAIN s1_keys /\ key \in DOMAIN s2_keys
               THEN Place(comparison, << code, key >>, s1_keys[key], s2_keys[key])
               ELSE IF key \in DOMAIN s1_keys
               THEN OnlyIn1(comparison, << code, key >>, Reported(s1_keys[key]))
               ELSE OnlyIn2(comparison, << code, key >>, Reported(s2_keys[key]))
         IN KeyFold(next, code, keys, i + 1, s1_keys, s2_keys)

\* the loops of _compare_pricing_all_classes and _compare_pricing_by_context
RECURSIVE GroupedFold(_, _, _, _, _, _, _, _)
GroupedFold(comparison, codes, i, source1_data, source2_data, rule, f, as_of) ==
    IF i > Len(codes) THEN comparison
    ELSE LET code == codes[i]
             s1_keys == IF code \in Codes(source1_data)
                        THEN MaxByKey(_filter_rates(EntryOf(source1_data, code).rates, f.negotiated_type,
                                                    f.exclude_expired, as_of), rule)
                        ELSE << >>
             s2_keys == IF code \in Codes(source2_data)
                        THEN MaxByKey(_filter_rates(EntryOf(source2_data, code).rates, f.negotiated_type,
                                                    f.exclude_expired, as_of), rule)
                        ELSE << >>
             next == KeyFold(comparison, code, SeqOf(DOMAIN s1_keys \cup DOMAIN s2_keys), 1,
                             s1_keys, s2_keys)
         IN GroupedFold(next, codes, i + 1, source1_data, source2_data, rule, f, as_of)

\* the loop of _compare_pricing_per_occurrence over the codes of source 1
RECURSIVE PerOccurrenceFold(_, _, _, _, _, _)
PerOccurrenceFold(comparison, source1_data, i, source2_data, f, as_of) ==
    IF i > Len(source1_data) THEN comparison
    ELSE LET code_str == Strip(source1_data[i].code)
             baseline == BaselineKeyMap(source2_data)
             next ==
               IF code_str \notin Codes(baseline)
               THEN OnlyIn1(comparison, << code_str >>,
                            Reported(_max_rate_with_class(source1_data[i].rates).max))
               ELSE Place(comparison, << code_str >>,
                          _max_rate_with_class(_filter_rates(source1_data[i].rates, f.negotiated_type,
                                                             f.exclude_expired, as_of)).max,
                          _rate_for_rule(EntryOf(baseline, code_str).rates, "max", f.negotiated_type,
                                         f.exclude_expired, as_of).value)
         IN PerOccurrenceFold(next, source1_data, i + 1, source2_data, f, as_of)

\* compare_pricing once both sources were found
CompareLoaded(source1_name, source2_name, source1_data, source2_data, compare_rule, f, as_of) ==
    LET rule == NormalizeRule(compare_rule)
        start == NewComparison(source1_name, source2_name, rule, Len(source1_data), Len(source2_data))
        codes == AllCodes(source1_data, source2_data)
    IN IF rule \in {"all_classes", "context"}
       THEN GroupedFold(start, codes, 1, source1_data, source2_data, rule, f, as_of)
       ELSE IF rule = "per_occurrence"
       THEN PerOccurrenceFold(start, source1_data, 1, source2_data, f, as_of)
       ELSE ScalarFold(start, codes, 1, source1_data, source2_data, rule, f, as_of)

\* faulty variant: a second source that is not loaded is taken as empty
compare_pricing_SecondAsEmpty(source1_name, source2_name, compare_rule, f, as_of) ==
    IF ~Has(cpt_pricing, source1_name) THEN None
    ELSE Some(CompareLoaded(source1_name, source2_name, cpt_pricing[source1_name],
                            IF Has(cpt_pricing, source2_name) THEN cpt_pricing[source2_name] ELSE << >>,
                            compare_rule, f, as_of))

\* compare_pricing: None when a source is not loaded, the comparison otherwise
compare_pricing(source1_name, source2_name, compare_rule, f, as_of) ==
    IF ~Has(cpt_pricing, source1_name) \/ ~Has(cpt_pricing, source2_name) THEN None
    ELSE Some(CompareLoaded(source1_name, source2_name, cpt_pricing[source1_name],
                            cpt_pricing[source2_name], compare_rule, f, as_of))

\* the names the /compare route finds no pricing for
missing_sources(source1, source2) ==
    (IF source1 = "" \/ ~Has(cpt_pricing, source1) THEN << source1 >> ELSE << >>)
      \o (IF source2 = "" \/ ~Has(cpt_pricing, source2) THEN << source2 >> ELSE << >>)

\* the /compare route; the model follows a behaviour up to its first report
Compare(source1, source2, raw_rule, f) ==
    /\ report = None
    /\ LET compare_rule == NormalizeRule(raw_rule)
           comparison == IF missing_sources(source1, source2) # << >> THEN None
                         ELSE compare_pricing(source1, source2, compare_rule, f, Today)
       IN report' = Some([source1 |-> source1, source2 |-> source2, compare_rule |-> compare_rule,
                          negotiated_type |-> f.negotiated_type,
                          exclude_expired |-> f.exclude_expired,
                          success |-> comparison # None, comparison |-> comparison])
    /\ UNCHANGED <<cpt_pricing, sessions, persisted, call, result, fed, calls, prior, source1_rates,
                   request, cpt_data, rate_vars, route_vars, adapter_vars>>

IngestNames == {"Payer A"}
CompareNames == {"Payer A", "payerB", "payerD"}
BatchRules == {"max", "min", "avg", "median", "max_avg_by_billing_class", "all_classes",
               "per_occurrence", "context"}

\* the items extracted in the batch specification
MaxEntries == 2

NextBatch ==
    \/ \E item \in BatchItems : fed < MaxEntries /\ AddEntry(item)
    \/ \E source_name \in IngestNames : StoreSource(source_name)
    \/ \E source1 \in CompareNames, source2 \in CompareNames, rule \in BatchRules, f \in Filters :
          Compare(source1, source2, rule, f)

SpecBatch == Init /\ [][NextBatch]_vars

\* the three lists of compared keys of a comparison, one after the other
ComparedLists(c) == c.higher_in_source1 \o c.higher_in_source2 \o c.equal

\* C13: in every report, under every rule, each compared key is in exactly
\* one of higher_in_source1 (rate1 > rate2), higher_in_source2 (rate2 >
\* rate1) and equal (equal rates), the difference of its item is
\* rate1 - rate2, and the three lists together have total_compared items.
C13_OneListPerKey ==
    (report # None /\ report[1].success) =>
        LET c == report[1].comparison[1]
            all == ComparedLists(c)
        IN /\ \A i \in 1..Len(c.higher_in_source1) :
                  c.higher_in_source1[i].source1_rate > c.higher_in_source1[i].source2_rate
           /\ \A i \in 1..Len(c.higher_in_source2) :
                  c.higher_in_source2[i].source2_rate > c.higher_in_source2[i].source1_rate
           /\ \A i \in 1..Len(c.equal) : c.equal[i].source1_rate = c.equal[i].source2_rate
           /\ \A i \in 1..Len(all) : all[i].difference = all[i].source1_rate - all[i].source2_rate
           /\ \A i, j \in 1..Len(all) : all[i].key = all[j].key => i = j
           /\ Len(all) = c.total_compared

\* a report under all_classes on an extracted source, with a key in each of
\* two lists
C13_Witness ==
    /\ report # None
    /\ report[1].success
    /\ report[1].source1 = "Payer A"
    /\ report[1].compare_rule = "all_classes"
    /\ Len(report[1].comparison[1].higher_in_source1) >= 1
    /\ Len(report[1].comparison[1].higher_in_source2) >= 1

\* the distinct codes of the two sources of a report
UnionOfCodes(r) == Codes(cpt_pricing[r.source1]) \cup Codes(cpt_pricing[r.source2])

\* C14: in every report, under every rule, total_compared plus the lengths
\* of only_in_source1 and only_in_source2 is the number of distinct codes of
\* the two sources together.
C14_UnionOfCodes ==
    [][(report' # report /\ report'[1].success) =>
          LET c == report'[1].comparison[1]
          IN c.total_compared + Len(c.only_in_source1) + Len(c.only_in_source2)
                = Cardinality(UnionOfCodes(report'[1]))]_vars

\* C15: a comparison on two names of which one has no pricing in the store
\* gives no report, under every rule: the /compare route answers without
\* success, compare_pricing returns nothing, and the store is unchanged.
C15_MissingSource ==
    [][report' # report =>
          LET r == report'[1]
          IN (~Has(cpt_pricing, r.source1) \/ ~Has(cpt_pricing, r.source2)) =>
                /\ ~r.success
                /\ r.comparison = None
                /\ compare_pricing(r.source1, r.source2, r.compare_rule,
                                   [negotiated_type |-> r.negotiated_type,
                                    exclude_expired |-> r.exclude_expired], Today) = None
                /\ cpt_pricing' = cpt_pricing]_vars

\* the route answered without success on a loaded first and a missing
\* second source under context
C15_Witness ==
    /\ report # None
    /\ ~report[1].success
    /\ report[1].source1 = "payerB"
    /\ report[1].source2 = "payerD"
    /\ report[1].compare_rule = "context"

(***************************************************************************)
(* Descriptions: a source is extracted while a session streams the same    *)
(* kind of items, whose descriptions are absent, placeholders or texts.    *)
(***************************************************************************)
DescriptionRules == {"max", "per_occurrence"}

NextDescriptions ==
    \/ \E item \in BatchItems : AddEntry(item)
    \/ \E rule \in DescriptionRules :
          /\ RepeatsParameters("s1", rule, [negotiated_type |-> "", exclude_expired |-> FALSE])
          /\ BeginPart("s1", "Payer A", "payerB", rule, "", FALSE, Today)
    \/ \E item \in BatchItems : ProcessItem(item)
    \/ \E item \in BatchItems : ProcessOccurrence(item)
    \/ EndPart

SpecDescriptions == Init /\ [][NextDescriptions]_vars

\* the description stored for a code in the dict under extraction
StoredDescription(data, code) == EntryOf(data, code).description

\* the descriptions of the Source 1 summaries of a session
SummaryDescriptions(state) ==
    [code \in DOMAIN state.source1_rate_summary |-> state.source1_rate_summary[code].description]

\* a step from descriptions before to descriptions after, on observing item:
\* a text is kept, a placeholder is replaced by the text of the item
DescriptionStep(before, after, item) ==
    \A code \in DOMAIN before \cap DOMAIN after :
        /\ before[code] \notin Placeholders => after[code] = before[code]
        /\ (/\ before[code] \in Placeholders
            /\ Accepted(item)
            /\ Strip(item.billing_code) = code
            /\ item.description \notin Placeholders) => after[code] = item.description

\* C16: while a source is extracted item by item, and in the Source 1
\* summaries of a session, a stored description other than a placeholder
\* (empty, "No description") is never changed by a later item, and a stored
\* placeholder is replaced by the description of the first later item of the
\* code that is not a placeholder.
C16_DescriptionUpgrade ==
    [][\A item \in BatchItems :
          /\ AddEntry(item) =>
                DescriptionStep([code \in Codes(cpt_data) |-> StoredDescription(cpt_data, code)],
                                [code \in Codes(cpt_data') |-> StoredDescription(cpt_data', code)],
                                item)
          /\ (ProcessItem(item) \/ ProcessOccurrence(item)) =>
                \A sid \in DOMAIN sessions \cap DOMAIN sessions' :
                    DescriptionStep(SummaryDescriptions(sessions[sid]),
                                    SummaryDescriptions(sessions'[sid]), item)]_vars

\* the summary of code A has the description of the one item that has a
\* text and the rates of an item with a placeholder as well, while the dict
\* under extraction holds an entry whose description is a placeholder
C16_Witness ==
    /\ Has(sessions, "s1")
    /\ sessions["s1"].compare_rule = Some("max")
    /\ Has(sessions["s1"].source1_rate_summary, "A")
    /\ sessions["s1"].source1_rate_summary["A"].description = "Office visit"
    /\ sessions["s1"].source1_rate_summary["A"].count = 3
    /\ cpt_data # << >>
    /\ cpt_data[1].description \in Placeholders

(***************************************************************************)
(* The reductions of a rate list, applied to lists drawn from a bounded    *)
(* set: the list is reduced under every rule, rates without a number are   *)
(* inserted into it and it is permuted, and it is reduced again.           *)
(***************************************************************************)
MaxRates == 3

\* rates with a number (two classes tie at 100; a zero, a negative and a
\* blank-class rate) and rates without one
NumericPrices ==
    { Price(Num(100), "professional", "negotiated", ""),
      Price(Num(100), "facility", "negotiated", ""),
      Price(Num(10), "professional", "negotiated", ""),
      Price(Num(0), "professional", "negotiated", ""),
      Price(Num(-5), "facility", "negotiated", ""),
      Price(Num(50), " ", "negotiated", "") }
NonNumericPrices ==
    { Price(JNull, "facility", "negotiated", ""),
      Price(JText, " ", "negotiated", ""),
      Price(JNaN, "institutional", "negotiated", "") }
RatePrices == NumericPrices \cup NonNumericPrices

RateLists == UNION { [1..n -> RatePrices] : n \in 0..MaxRates }

RateRules == {"max", "min", "avg", "median", "max_avg_by_billing_class", "all_classes"}

\* what a rule returns for a list: value, billing class, count and per-class
\* data (_rate_for_rule with its meta; _max_rate_by_class under all_classes)
RuleResult(rates, rule) ==
    CASE rule = "all_classes" ->
            [value |-> 0, billing_class |-> "unknown", count |-> Len(NumericValues(rates)),
             classes |-> _max_rate_by_class(rates)]
      [] rule = "max_avg_by_billing_class" ->
            LET by == _rates_summary_by_class(_filter_rates(rates, "", FALSE, Today))
            IN [value |-> by.representative_avg, billing_class |-> by.representative_class,
                count |-> 0, classes |-> by.classes]
      [] OTHER ->
            LET r == _rate_for_rule(rates, rule, "", FALSE, Today)
            IN [value |-> r.value, billing_class |-> r.billing_class, count |-> r.count,
                classes |-> << >>]

\* the incremental summary of the list under a rule, finalized
Finalized(rates, rule) ==
    _finalize_source1_value(FeedPrices(_init_source1_summary("", rule), rates, 1, rule), rule)

Reductions(rates) ==
    [batch |-> [rule \in RateRules |-> RuleResult(rates, rule)],
     finalized |-> Finalized(rates, "max_avg_by_billing_class")]

InitRates ==
    /\ cpt_pricing = LoadedSources
    /\ sessions = EmptyMap
    /\ persisted = EmptyMap
    /\ call = Idle
    /\ result = "none"
    /\ fed = 0
    /\ calls = 0
    /\ prior = None
    /\ source1_rates = EmptyMap
    /\ request = None
    /\ cpt_data = << >>
    /\ report = None
    /\ rate_list \in RateLists
    /\ reduced = None
    /\ response = None
    /\ url_cache = EmptyMap
    /\ threads = EmptyMap
    /\ multipart_sessions = EmptyMap
    /\ estimator = None
    /\ stream = None

rest_vars == <<cpt_pricing, sessions, persisted, call, result, fed, calls, prior, source1_rates,
               request, batch_vars, route_vars, adapter_vars, estimator>>

\* the list is reduced under every rule
Reduce ==
    /\ reduced = None
    /\ reduced' = Some(Reductions(rate_list))
    /\ UNCHANGED <<rate_list, rest_vars>>

\* a rate without a number is inserted after position pos, and the list is
\* reduced again
InsertNonNumeric(pos, price) ==
    /\ reduced # None
    /\ Len(rate_list) < MaxRates
    /\ pos <= Len(rate_list)
    /\ rate_list' = SubSeq(rate_list, 1, pos) \o << price >> \o SubSeq(rate_list, pos + 1, Len(rate_list))
    /\ reduced' = Some(Reductions(rate_list'))
    /\ UNCHANGED rest_vars

\* the list is put in another order, and reduced again
Permute(order) ==
    /\ reduced # None
    /\ rate_list # << >>
    /\ rate_list' = [i \in 1..Len(rate_list) |-> rate_list[order[i]]]
    /\ rate_list' # rate_list
    /\ reduced' = Some(Reductions(rate_list'))
    /\ UNCHANGED rest_vars

NextRates ==
    \/ Reduce
    \/ \E pos \in 0..MaxRates, price \in NonNumericPrices : InsertNonNumeric(pos, price)
    \/ \E order \in Orders(1..Len(rate_list)) : Permute(order)

SpecRates == InitRates /\ [][NextRates]_vars

\* C17: for max, min, avg, median, max_avg_by_billing_class and all_classes,
\* inserting a rate whose negotiated_rate is None, not a number, NaN or
\* infinite, under any billing class, leaves the whole result of the rule
\* (value, billing class, count, per-class data) as it was without the rate.
C17_NonNumericIgnored ==
    [][(reduced # None /\ Len(rate_list') = Len(rate_list) + 1) =>
          reduced'[1].batch = reduced[1].batch]_vars

\* C18: for max, min, avg, max_avg_by_billing_class and all_classes, the
\* value and the billing class reported for it (under all_classes the
\* per-class maxima) are the same for every permutation of the rate list.
C18_OrderIndependent ==
    [][(reduced # None /\ Len(rate_list') = Len(rate_list) /\ rate_list' # rate_list) =>
          /\ \A rule \in {"max", "min", "avg", "max_avg_by_billing_class"} :
                /\ reduced'[1].batch[rule].value = reduced[1].batch[rule].value
                /\ reduced'[1].batch[rule].billing_class = reduced[1].batch[rule].billing_class
          /\ reduced'[1].batch["all_classes"].classes = reduced[1].batch["all_classes"].classes]_vars

\* the largest and the smallest of a non-empty sequence of values
Largest(values) == CHOOSE v \in { values[i] : i \in 1..Len(values) } : \A i \in 1..Len(values) : values[i] <= v
Smallest(values) == CHOOSE v \in { values[i] : i \in 1..Len(values) } : \A i \in 1..Len(values) : v <= values[i]

\* the billing classes of the rates of a list that have the value
ClassesAttaining(rates, value) ==
    { BillingClass(rates[i]) : i \in { j \in 1..Len(rates) : _try_float(rates[j].negotiated_rate) = Some(value) } }

\* C19: max returns the largest numeric rate of the list, the billing class
\* of a rate attaining it and the count of numeric rates, and (0.0,
\* "unknown", 0) only when the list has no numeric rate, also for lists of
\* zero or negative rates; min is its mirror image, so min <= max.
C19_MaxAndMin ==
    reduced # None =>
        LET values == NumericValues(rate_list)
            max == reduced[1].batch["max"]
            min == reduced[1].batch["min"]
        IN IF values = << >>
           THEN /\ max = [value |-> 0, billing_class |-> "unknown", count |-> 0, classes |-> << >>]
                /\ min = [value |-> 0, billing_class |-> "unknown", count |-> 0, classes |-> << >>]
           ELSE /\ max.value = Largest(values)
                /\ max.billing_class \in ClassesAttaining(rate_list, max.value)
                /\ max.count = Len(values)
                /\ min.value = Smallest(values)
                /\ min.billing_class \in ClassesAttaining(rate_list, min.value)
                /\ min.count = Len(values)
                /\ min.value <= max.value

\* the classes of a list, and the average of the numeric rates of a class
ClassesOf(rates) == { BillingClass(rates[i]) : i \in 1..Len(rates) }
AverageOf(rates, cls) ==
    _rates_summary(SelectSeq(rates, LAMBDA r : BillingClass(r) = cls)).avg

\* the representative class and value the claim describes, checked on a result
RepresentsKnown(rates, r) ==
    LET known == ClassesOf(rates) \ {"unknown"}
    IN IF known # {}
       THEN /\ r.billing_class \in known
            /\ \A cls \in known : AverageOf(rates, cls) <= AverageOf(rates, r.billing_class)
            /\ r.value = AverageOf(rates, r.billing_class)
       ELSE /\ r.billing_class = "unknown"
            /\ r.value = AverageOf(rates, "unknown")

\* C20: under max_avg_by_billing_class the representative class is the class
\* other than "unknown" with the greatest average whenever the list has such
\* a class, "unknown" only when it has no other class, and the value is the
\* average of that class, in the batch reduction and in the finalized
\* incremental summary.
C20_RepresentativeClass ==
    (reduced # None /\ \A i \in 1..Len(rate_list) : rate_list[i] \in NumericPrices) =>
        /\ RepresentsKnown(rate_list, reduced[1].batch["max_avg_by_billing_class"])
        /\ RepresentsKnown(rate_list, reduced[1].finalized)

(***************************************************************************)
(* The filter primitive, applied to rate lists drawn from a bounded set,   *)
(* and applied again to its own output.                                    *)
(***************************************************************************)
FilterPrices ==
    { Price(Num(100), "professional", "negotiated", ""),
      Price(Num(100), "professional", "Negotiated ", "2025-01-01"),
      Price(Num(100), "professional", "fee schedule", "2024-12-31"),
      Price(Num(100), "professional", "negotiated", "2024-12-31"),
      Price(Num(100), "professional", "", "not a date"),
      Price(Num(100), "professional", "negotiated", "2025-01-01") }

FilterLists == UNION { [1..n -> FilterPrices] : n \in 0..MaxRates }
FilterTypes == {"", " ", "negotiated", "Negotiated "}
FilterDates == {20250101, 20250102}

InitFilter ==
    /\ cpt_pricing = LoadedSources
    /\ sessions = EmptyMap
    /\ persisted = EmptyMap
    /\ call = Idle
    /\ result = "none"
    /\ fed = 0
    /\ calls = 0
    /\ prior = None
    /\ source1_rates = EmptyMap
    /\ request = None
    /\ cpt_data = << >>
    /\ report = None
    /\ rate_list \in FilterLists
    /\ reduced = None
    /\ response = None
    /\ url_cache = EmptyMap
    /\ threads = EmptyMap
    /\ multipart_sessions = EmptyMap
    /\ estimator = None
    /\ stream = None

\* _filter_rates is called on the list
Filter(negotiated_type, exclude_expired, as_of) ==
    /\ reduced = None
    /\ reduced' = Some([rates |-> rate_list, negotiated_type |-> negotiated_type,
                        exclude_expired |-> exclude_expired, as_of |-> as_of,
                        out |-> _filter_rates(rate_list, negotiated_type, exclude_expired, as_of)])
    /\ UNCHANGED <<rate_list, rest_vars>>

\* _filter_rates is called with the same arguments on what it returned
FilterAgain ==
    /\ reduced # None
    /\ rate_list' = reduced[1].out
    /\ reduced' = Some([reduced[1] EXCEPT
                          !.rates = rate_list',
                          !.out = _filter_rates(rate_list', reduced[1].negotiated_type,
                                                reduced[1].exclude_expired, reduced[1].as_of)])
    /\ UNCHANGED rest_vars

NextFilter ==
    \/ \E negotiated_type \in FilterTypes, exclude_expired \in BOOLEAN, as_of \in FilterDates :
          Filter(negotiated_type, exclude_expired, as_of)
    \/ FilterAgain

SpecFilter == InitFilter /\ [][NextFilter]_vars

\* the rate has an expiration date that is a date before as_of
ExpiredBefore(rate, as_of) ==
    /\ rate.expiration_date \in {"2024-12-31", "2025-01-01"}
    /\ (IF rate.expiration_date = "2024-12-31" THEN 20241231 ELSE 20250101) < as_of

\* C21 as stated: the output is the input in order without exactly the rates
\* whose lowercased negotiated_type differs from a non-empty negotiated_type
\* and, under exclude_expired, the rates whose date is before as_of; and
\* filtering the output again changes nothing.
C21_FilterAsStated ==
    reduced # None =>
        LET r == reduced[1]
        IN /\ r.out = SelectSeq(r.rates, LAMBDA rate :
                        /\ (r.negotiated_type # "" => Lower(rate.negotiated_type) = Lower(r.negotiated_type))
                        /\ (r.exclude_expired => ~ExpiredBefore(rate, r.as_of)))
           /\ _filter_rates(r.out, r.negotiated_type, r.exclude_expired, r.as_of) = r.out

\* C21, amended: the negotiated types are compared after trimming and
\* lowercasing both, and a negotiated_type that is blank after trimming
\* filters nothing.
C21_FilterTrimmed ==
    reduced # None =>
        LET r == reduced[1]
        IN /\ r.out = SelectSeq(r.rates, LAMBDA rate :
                        /\ (StripLower(r.negotiated_type) # "" =>
                               StripLower(rate.negotiated_type) = StripLower(r.negotiated_type))
                        /\ (r.exclude_expired => ~ExpiredBefore(rate, r.as_of)))
           /\ _filter_rates(r.out, r.negotiated_type, r.exclude_expired, r.as_of) = r.out

\* a filtered list that kept a rate expiring on as_of and one without a date
\* and dropped an expired one and one of another type
C21_Witness ==
    /\ reduced # None
    /\ reduced[1].negotiated_type = "negotiated"
    /\ reduced[1].exclude_expired
    /\ reduced[1].as_of = 20250101
    /\ Len(reduced[1].rates) = 3
    /\ Len(reduced[1].out) = 1
    /\ reduced[1].out[1].expiration_date = "2025-01-01"

(***************************************************************************)
(* The streamed loaders: load_json_from_parts and the large-file branch of *)
(* the JSON loader run extract_cpt_pricing_stream over the byte stream and *)
(* store what it returns.                                                  *)
(***************************************************************************)
LoadNames == {"Payer A", "payerB"}

\* extract_cpt_pricing_stream returns; truncated tells whether the parser
\* raised because the bytes ended inside the document.  The except clause of
\* the extraction prints the error and the dict built so far is returned.
StreamLoad(source_name, truncated) ==
    /\ request = None
    /\ request' = Some([source_name |-> source_name, truncated |-> truncated, yielded |-> fed,
                        before |-> cpt_pricing])
    /\ IF cpt_data = << >>
       THEN /\ result' = "Unable to locate in_network CPT data"
            /\ UNCHANGED cpt_pricing
       ELSE /\ result' = "Loaded"
            /\ cpt_pricing' = Put(cpt_pricing, source_name, cpt_data)
    /\ UNCHANGED <<sessions, persisted, call, fed, calls, prior, source1_rates, cpt_data, report,
                   rate_vars, route_vars, adapter_vars>>

NextLoad ==
    \/ \E item \in BatchItems : request = None /\ AddEntry(item)
    \/ \E source_name \in LoadNames, truncated \in BOOLEAN : StreamLoad(source_name, truncated)

SpecLoad == Init /\ [][NextLoad]_vars

\* C22: a streamed load whose bytes end inside the document after items were
\* yielded fails (no load is reported) and leaves the store as it was.
C22_TruncatedLoadFails ==
    (request # None /\ request[1].truncated /\ request[1].yielded > 0) =>
        /\ result # "Loaded"
        /\ cpt_pricing = request[1].before

(***************************************************************************)
(* Batch comparisons whose rule token is not one of the rules the code     *)
(* names.                                                                  *)
(***************************************************************************)
RequestedRules == {"max", "mode", " MAX"}

NextRequested ==
    \/ \E item \in BatchItems : fed < MaxEntries /\ AddEntry(item)
    \/ \E source_name \in IngestNames : StoreSource(source_name)
    \/ \E source1 \in CompareNames, source2 \in CompareNames, rule \in RequestedRules, f \in Filters :
          Compare(source1, source2, rule, f)

SpecRequested == Init /\ [][NextRequested]_vars

\* C23: a batch comparison whose rule is not a supported rule produces no
\* report: the request fails.
C23_BadRule ==
    (report # None /\ report[1].compare_rule \notin SupportedBatch \cup MultiValued) =>
        /\ ~report[1].success
        /\ report[1].comparison = None

\* the items of a list that carry the code
ItemsOf(list, code) == { i \in 1..Len(list) : list[i].key = << code >> }

\* the code appears once in the list and nowhere in the other, with the
\* reduction of its filtered rates under the rule of the report
ReportedOnce(r, list, other, entry) ==
    /\ Cardinality(ItemsOf(list, entry.code)) = 1
    /\ ItemsOf(other, entry.code) = {}
    /\ \A i \in ItemsOf(list, entry.code) :
          list[i].rate = Reported(_rate_for_rule(entry.rates, r.compare_rule, r.negotiated_type,
                                                 r.exclude_expired, Today).value)

\* C24: under a scalar rule a code of one source only appears once in the
\* only-in list of that source, and nowhere in the other, with the rule's
\* reduction of its filtered rates as its rate.
C24_OnlyInRates ==
    (report # None /\ report[1].success /\ report[1].compare_rule \in SupportedBatch) =>
        LET r == report[1]
            c == r.comparison[1]
            first == cpt_pricing[r.source1]
            second == cpt_pricing[r.source2]
        IN /\ \A i \in 1..Len(first) :
                 first[i].code \notin Codes(second) =>
                     ReportedOnce(r, c.only_in_source1, c.only_in_source2, first[i])
           /\ \A i \in 1..Len(second) :
                 second[i].code \notin Codes(first) =>
                     ReportedOnce(r, c.only_in_source2, c.only_in_source1, second[i])

(***************************************************************************)
(* Parts of one session whose calls supply different as_of dates, against  *)
(* a baseline whose codes both carry a rate that expires between the dates.*)
(***************************************************************************)
DatedSources ==
    [ payerE |->
        << Entry("A", "Office visit",
                 << Price(Num(100), "professional", "negotiated", ""),
                    Price(Num(120), "professional", "negotiated", "2024-12-31") >>),
           Entry("B", "Office visit",
                 << Price(Num(50), "professional", "negotiated", ""),
                    Price(Num(70), "professional", "negotiated", "2024-12-31") >>) >> ]

DatedItems ==
    { Item("A", "CPT", << Below >>), Item("A", "CPT", << Lapsed >>),
      Item("B", "CPT", << Below >>), Item("B", "CPT", << Lapsed >>) }

AsOfDates == {20241231, 20250101}
DatedRules == {"max", "min"}

InitDated ==
    /\ cpt_pricing = DatedSources
    /\ sessions = EmptyMap
    /\ persisted = EmptyMap
    /\ call = Idle
    /\ result = "none"
    /\ fed = 0
    /\ calls = 0
    /\ prior = None
    /\ source1_rates = EmptyMap
    /\ request = None
    /\ cpt_data = << >>
    /\ report = None
    /\ rate_list = << >>
    /\ reduced = None
    /\ response = None
    /\ url_cache = EmptyMap
    /\ threads = EmptyMap
    /\ multipart_sessions = EmptyMap
    /\ estimator = None
    /\ stream = None

NextDated ==
    \/ \E rule \in DatedRules, as_of \in AsOfDates :
          /\ RepeatsParameters("s1", rule, [negotiated_type |-> "", exclude_expired |-> TRUE])
          /\ BeginPart("s1", "Payer A", "payerE", rule, "", TRUE, as_of)
    \/ \E item \in DatedItems : ProcessItem(item)
    \/ EndPart

SpecDated == InitDated /\ [][NextDated]_vars

\* every entry of the cache is the baseline reduction under the date
CacheUnder(state, as_of) ==
    \A code \in DOMAIN state.baseline_rate_cache :
        state.baseline_rate_cache[code] =
            _rate_for_rule(EntryOf(state.baseline_key_map[1], code).rates, state.compare_rule[1],
                           "", state.exclude_expired[1], as_of)

\* C25: one date explains every baseline_rate_cache entry of a session, and
\* a part that is being read works with that date.
C25_OneDate ==
    \A sid \in DOMAIN sessions :
        \E as_of \in AsOfDates :
            /\ (call.pc = "streaming" /\ call.session_id = sid) => call.as_of = as_of
            /\ CacheUnder(sessions[sid], as_of)

(***************************************************************************)
(* The status route beside the parts of a session, and restarts of the     *)
(* process, which drop what is held in memory and keep the files.          *)
(***************************************************************************)
\* faulty variant: a session that is not in memory is reported as not found
Status_MemoryOnly(session_id) ==
    /\ call.pc = "idle"
    /\ response' =
         IF session_id = "" THEN Some([session_id |-> session_id, code |-> 400, success |-> FALSE])
         ELSE IF Has(sessions, session_id)
         THEN Some([session_id |-> session_id, code |-> 200, success |-> TRUE,
                    payload |-> _incremental_state_to_payload(sessions[session_id])])
         ELSE Some([session_id |-> session_id, code |-> 404, success |-> FALSE])
    /\ UNCHANGED <<cpt_pricing, sessions, persisted, call, result, fed, calls, prior, source1_rates,
                   request, batch_vars, rate_vars, url_cache, stream, adapter_vars>>

\* the /incremental_comparison_status route, between the calls
Status(session_id) ==
    /\ call.pc = "idle"
    /\ response' =
         IF session_id = "" THEN Some([session_id |-> session_id, code |-> 400, success |-> FALSE])
         ELSE IF Has(sessions, session_id)
         THEN Some([session_id |-> session_id, code |-> 200, success |-> TRUE,
                    payload |-> _incremental_state_to_payload(sessions[session_id])])
         ELSE IF Has(persisted, session_id)
         THEN Some([session_id |-> session_id, code |-> 200, success |-> TRUE,
                    payload |-> persisted[session_id]])
         ELSE Some([session_id |-> session_id, code |-> 404, success |-> FALSE])
    /\ UNCHANGED <<cpt_pricing, sessions, persisted, call, result, fed, calls, prior, source1_rates,
                   request, batch_vars, rate_vars, url_cache, stream, adapter_vars>>

\* the process is started anew: the analyzer is constructed again, the
\* session files stay
Restart ==
    /\ sessions # EmptyMap
    /\ cpt_pricing' = EmptyMap
    /\ sessions' = EmptyMap
    /\ call' = Idle
    /\ result' = "none"
    /\ prior' = None
    /\ source1_rates' = EmptyMap
    /\ request' = None
    /\ response' = None
    /\ UNCHANGED <<persisted, fed, calls, batch_vars, rate_vars, url_cache, stream, adapter_vars>>

StatusItems ==
    { Item("A", "CPT", << Below >>), Item("A", "CPT", << Above >>), Item("C", "CPT", << Level >>),
      Item("B", "CPT", << Negative >>) }
StatusIds == {"s1", "s9", ""}
StatusRules == {"max", "per_occurrence"}

NextStatus ==
    \/ \E rule \in StatusRules : BeginPart("s1", "Payer A", "payerB", rule, "", FALSE, Today)
    \/ \E item \in StatusItems : ProcessItem(item)
    \/ \E item \in StatusItems : ProcessOccurrence(item)
    \/ StreamFail
    \/ EndPart
    \/ \E session_id \in StatusIds : Status(session_id)
    \/ Restart

SpecStatus == Init /\ [][NextStatus]_vars

\* the counts, amounts and sample lists of a snapshot or payload
Summary(payload) ==
    [comparison |-> payload.comparison, parts_processed |-> payload.parts_processed,
     last_part |-> payload.last_part]

\* what session_status has to answer in the state
Answer(session_id) ==
    IF Has(sessions, session_id) THEN Some(Summary(_incremental_state_to_payload(sessions[session_id])))
    ELSE IF Has(persisted, session_id) THEN Some(Summary(persisted[session_id]))
    ELSE None

\* a part was processed successfully and nothing happened to the session since
SnapshotOfMemory ==
    (call.pc = "idle" /\ result = "Success" /\ request # None) =>
        LET sid == request[1].session_id
        IN /\ Has(persisted, sid)
           /\ Has(sessions, sid)
           /\ Summary(persisted[sid]) = Summary(_incremental_state_to_payload(sessions[sid]))

\* a status request answers from memory, else from the snapshot, else NotFound
StatusAnswers ==
    \A session_id \in StatusIds \ {""} :
        (response' # response /\ response' # None /\ response'[1].session_id = session_id) =>
            IF Answer(session_id) = None
            THEN response'[1].code = 404 /\ ~response'[1].success
            ELSE /\ response'[1].success
                 /\ Summary(response'[1].payload) = Answer(session_id)[1]

\* C26: after a successfully processed part the snapshot stored under the
\* session_id equals what session_status shows of the session in memory;
\* without the session in memory session_status answers the stored snapshot,
\* and NotFound only when there is none.
C26_SnapshotEqualsStatus == []SnapshotOfMemory /\ [][StatusAnswers]_vars

\* a status request answered from the snapshot of a session that is no more
\* in memory
C26_Witness ==
    /\ response # None
    /\ response[1].session_id = "s1"
    /\ response[1].success
    /\ ~Has(sessions, "s1")
    /\ Has(persisted, "s1")
    /\ response[1].payload.parts_processed = 1
    /\ response[1].payload.comparison.total_compared = 1

\* C27 as stated: once a call on a session has ended, with an error too, the
\* snapshot of the session is stored.
C27_PersistedAfterEveryCall ==
    (call.pc = "idle" /\ request # None /\ result # "none" /\ Has(sessions, request[1].session_id)) =>
        LET sid == request[1].session_id
        IN /\ Has(persisted, sid)
           /\ Summary(persisted[sid]) = Summary(_incremental_state_to_payload(sessions[sid]))

\* C27, amended: the stored snapshots change only in the step that ends a
\* call successfully; a call that ends in an error leaves them as they were.
C27_PersistOnlyOnSuccess ==
    [][persisted' # persisted => (call.pc = "streaming" /\ call'.pc = "idle" /\ result' = "Success")]_vars

\* a call on a session that has a snapshot ended in an error
C27_Witness ==
    /\ call.pc = "idle"
    /\ result \in {"Error during incremental comparison",
                   "compare_rule cannot change for an existing session_id."}
    /\ Has(persisted, "s1")
    /\ Has(sessions, "s1")
    /\ sessions["s1"].comparison.total_source1_count > persisted["s1"].comparison.total_source1_count

(***************************************************************************)
(* MultiPartStream: part files stitched together as one read() source.     *)
(***************************************************************************)
MaxParts == 3
MaxPartLen == 2

\* the bytes of part i of length n: each byte names its part and its place
PartBytes(i, n) == [j \in 1..n |-> 10 * i + j]

\* the lists of part files
PartLists ==
    UNION { { [i \in 1..n |-> PartBytes(i, lens[i])] : lens \in [1..n -> 0..MaxPartLen] } :
            n \in 0..MaxParts }

RECURSIVE Joined(_)
Joined(chunks) == IF chunks = << >> THEN << >> ELSE Head(chunks) \o Joined(Tail(chunks))

\* __init__
MultiPartStream(paths) ==
    [paths |-> paths, handles |-> << >>, idx |-> 0, closed |-> FALSE]

\* _open_next: the next part is opened and appended to handles, if there is one
_open_next(s) ==
    IF s.idx < Len(s.paths)
    THEN [s EXCEPT !.handles = Append(@, [part |-> s.idx + 1, pos |-> 0, closed |-> FALSE]),
                   !.idx = @ + 1]
    ELSE s

\* the stream once the handle in use is there: the last handle, or the next
\* part when there is no handle or the last one is closed
WithHandle(s) ==
    IF s.handles = << >> \/ s.handles[Len(s.handles)].closed THEN _open_next(s) ELSE s

\* handle is None: no part was left to open
NoHandle(s) == s.handles = << >> \/ s.handles[Len(s.handles)].closed

\* handle.read(remaining), handle.read() when remaining is -1
HandleData(s, remaining) ==
    LET h == s.handles[Len(s.handles)]
        content == s.paths[h.part]
        upto == IF remaining < 0 THEN Len(content) ELSE Min2(Len(content), h.pos + remaining)
    IN SubSeq(content, h.pos + 1, upto)

\* faulty variant: the part after an exhausted one is passed over
Exhausted_SkipsNext(s) ==
    [s EXCEPT !.handles[Len(s.handles)].closed = TRUE,
              !.idx = Min2(@ + 1, Len(s.paths))]

\* the handle returned no data: handle.close()
Exhausted(s) == [s EXCEPT !.handles[Len(s.handles)].closed = TRUE]

\* the loop of read: the stream and the chunks when it is left
RECURSIVE ReadLoop(_, _, _)
ReadLoop(s, remaining, chunks) ==
    IF remaining = 0 THEN [s |-> s, chunks |-> chunks]
    ELSE LET opened == WithHandle(s)
         IN IF NoHandle(opened) THEN [s |-> opened, chunks |-> chunks]
            ELSE LET data == HandleData(opened, remaining)
                     last == Len(opened.handles)
                 IN IF data # << >>
                    THEN ReadLoop([opened EXCEPT !.handles[last].pos = @ + Len(data)],
                                  IF remaining # -1 THEN remaining - Len(data) ELSE remaining,
                                  Append(chunks, data))
                    ELSE ReadLoop(Exhausted(opened), remaining, chunks)

ReadSizes == {-1, 1, 2, 3}

InitStream ==
    /\ cpt_pricing = LoadedSources
    /\ sessions = EmptyMap
    /\ persisted = EmptyMap
    /\ call = Idle
    /\ result = "none"
    /\ fed = 0
    /\ calls = 0
    /\ prior = None
    /\ source1_rates = EmptyMap
    /\ request = None
    /\ cpt_data = << >>
    /\ report = None
    /\ rate_list = << >>
    /\ reduced = None
    /\ response = None
    /\ url_cache = EmptyMap
    /\ threads = EmptyMap
    /\ multipart_sessions = EmptyMap
    /\ estimator = None
    /\ \E paths \in PartLists :
          stream = Some([s |-> MultiPartStream(paths), out |-> << >>, last |-> None,
                         was_closed |-> FALSE])

stream_rest == <<cpt_pricing, sessions, persisted, call, result, fed, calls, prior, source1_rates,
                 request, batch_vars, rate_vars, response, url_cache, adapter_vars>>

\* read(size); out gathers what the reads returned, last is what this one did
Read(size) ==
    /\ stream # None
    /\ LET s == stream[1].s
           done == ReadLoop(s, size, << >>)
       IN stream' =
            IF s.closed
            THEN Some([stream[1] EXCEPT !.last = Some(<< >>), !.was_closed = TRUE])
            ELSE Some([s |-> done.s, out |-> stream[1].out \o Joined(done.chunks),
                       last |-> Some(Joined(done.chunks)), was_closed |-> FALSE])
    /\ UNCHANGED stream_rest

\* close(): every handle is closed
Close ==
    /\ stream # None
    /\ stream' =
         IF stream[1].s.closed THEN stream
         ELSE Some([stream[1] EXCEPT
                      !.s.handles = [i \in 1..Len(@) |-> [@[i] EXCEPT !.closed = TRUE]],
                      !.s.closed = TRUE])
    /\ UNCHANGED stream_rest

NextStream ==
    \/ \E size \in ReadSizes : Read(size)
    \/ Close

SpecStream == InitStream /\ [][NextStream]_vars

\* the handles that are open
OpenHandles(s) == { i \in 1..Len(s.handles) : ~s.handles[i].closed }

IsPrefix(a, b) == Len(a) <= Len(b) /\ a = SubSeq(b, 1, Len(a))

\* C28: what the reads returned so far is the beginning of the parts' bytes
\* in order, and all of them once a read of an open stream returned nothing;
\* at most one handle is open; after close none is.
C28_Stitched ==
    stream # None =>
        LET s == stream[1].s
            all == Joined(s.paths)
        IN /\ IsPrefix(stream[1].out, all)
           /\ (stream[1].last = Some(<< >>) /\ ~stream[1].was_closed) => stream[1].out = all
           /\ Cardinality(OpenHandles(s)) <= 1
           /\ s.closed => OpenHandles(s) = {}

\* reads of one byte and more went over an empty part between two others and
\* returned all of it, and the stream was closed after
C28_Witness ==
    /\ stream # None
    /\ Len(stream[1].s.paths) = 3
    /\ stream[1].s.paths[2] = << >>
    /\ Len(stream[1].s.paths[1]) = 2
    /\ Len(stream[1].s.paths[3]) = 1
    /\ stream[1].out = Joined(stream[1].s.paths)
    /\ stream[1].last = Some(<< >>)
    /\ stream[1].was_closed
    /\ Len(stream[1].s.handles) = 3

\* the billing classes of the fed rates of the code that have the value
ClassesWith(sid, code, value) ==
    { p[2] : p \in { q \in source1_rates[<<sid, code>>] : q[1] = value } }

\* C29: under per_occurrence the Source 1 value of a matched code is the
\* largest of the filtered rates its items brought so far, with the billing
\* class of such a rate, and the code is counted in one bucket, once.
C29_HighestOccurrence ==
    \A sid \in DOMAIN sessions :
        LET state == sessions[sid]
        IN state.compare_rule = Some("per_occurrence") =>
             /\ \A code \in state.matched_baseline_codes :
                   Source1Values(sid, code) # {} =>
                      /\ state.source1_rate_summary[code].max = TrueMax(Source1Values(sid, code))
                      /\ state.source1_rate_summary[code].billing_class
                            \in ClassesWith(sid, code, TrueMax(Source1Values(sid, code)))
             /\ DOMAIN state.code_bucket = state.matched_baseline_codes
             /\ \A b \in BucketSet :
                   state.comparison[b \o "_count"] =
                      Cardinality({c \in DOMAIN state.code_bucket : state.code_bucket[c] = b})

(***************************************************************************)
(* The /fetch_pricing route: fetch_and_parse_gzipped_json with its cache,  *)
(* then the extraction into the store.                                     *)
(***************************************************************************)
\* extract_cpt_pricing: the dict of the items of data['in_network']
RECURSIVE ExtractFold(_, _, _)
ExtractFold(items, i, data) ==
    IF i > Len(items) THEN data ELSE ExtractFold(items, i + 1, _add_cpt_entry(items[i], data))

extract_cpt_pricing(items) == ExtractFold(items, 1, << >>)

\* the bodies a server sends: a document with in_network items, an empty
\* JSON object, bytes that are neither gzip nor JSON, and the error pages
Document(items) == [kind |-> "document", in_network |-> items]
FetchedBodies ==
    { Document(<< Described("A", "Office visit", << Above, Lapsed >>) >>),
      Document(<< Described("C", "Office visit", << Negative >>),
                  Described("A", "", << Below >>) >>),
      [kind |-> "empty object"],
      [kind |-> "garbage"] }
ErrorPages ==
    { [kind |-> "page", text |-> "<Error><Code>AccessDenied</Code></Error>"],
      [kind |-> "page", text |-> "Request has Expired"],
      [kind |-> "page", text |-> "Forbidden"] }

\* "AccessDenied" in response.text or "Expired" in response.text
HasMarker(body) ==
    body.kind = "page" /\ body.text \in {"<Error><Code>AccessDenied</Code></Error>", "Request has Expired"}

Replies ==
    { [status_code |-> 200, body |-> b] : b \in FetchedBodies }
      \cup { [status_code |-> 403, body |-> b] : b \in ErrorPages }
      \cup { [status_code |-> 404, body |-> [kind |-> "page", text |-> "Forbidden"]] }

ExpiredResult == [success |-> FALSE, message |-> "The link has expired."]
FailedResult == [success |-> FALSE, message |-> "Failed to fetch pricing data."]

\* what the route does with the content it got: the new store and the result
Ingest(content, source_name, cache_hit) ==
    IF content.kind = "document"
    THEN [store |-> Put(cpt_pricing, source_name, extract_cpt_pricing(content.in_network)),
          result |-> [success |-> TRUE, source_name |-> source_name, cache_hit |-> cache_hit]]
    ELSE [store |-> cpt_pricing, result |-> FailedResult]

\* faulty variant: the body of the reply is written to the cache before the
\* status is looked at
Fetch_CachesFirst(url, source_name, reply) ==
    /\ IF Has(url_cache, url)
       THEN LET done == Ingest(url_cache[url], source_name, TRUE)
            IN /\ cpt_pricing' = done.store
               /\ response' = Some([url |-> url, reply |-> None, result |-> done.result])
               /\ UNCHANGED url_cache
       ELSE /\ url_cache' = Put(url_cache, url, reply.body)
            /\ IF reply.status_code = 403 /\ HasMarker(reply.body)
               THEN /\ response' = Some([url |-> url, reply |-> Some(reply), result |-> ExpiredResult])
                    /\ UNCHANGED cpt_pricing
               ELSE IF reply.status_code >= 400
               THEN /\ response' = Some([url |-> url, reply |-> Some(reply), result |-> FailedResult])
                    /\ UNCHANGED cpt_pricing
               ELSE LET done == Ingest(reply.body, source_name, FALSE)
                    IN /\ cpt_pricing' = done.store
                       /\ response' = Some([url |-> url, reply |-> Some(reply), result |-> done.result])
    /\ UNCHANGED <<sessions, persisted, call, result, fed, calls, prior, source1_rates, request,
                   batch_vars, rate_vars, stream, adapter_vars>>

\* POST /fetch_pricing for an http url; reply is what the server would send,
\* asked only when the cache has no file for the url
Fetch(url, source_name, reply) ==
    /\ IF Has(url_cache, url)
       THEN LET done == Ingest(url_cache[url], source_name, TRUE)
            IN /\ cpt_pricing' = done.store
               /\ response' = Some([url |-> url, reply |-> None, result |-> done.result])
               /\ UNCHANGED url_cache
       ELSE IF reply.status_code = 403 /\ HasMarker(reply.body)
       THEN /\ response' = Some([url |-> url, reply |-> Some(reply), result |-> ExpiredResult])
            /\ UNCHANGED <<cpt_pricing, url_cache>>
       ELSE IF reply.status_code >= 400
       THEN /\ response' = Some([url |-> url, reply |-> Some(reply), result |-> FailedResult])
            /\ UNCHANGED <<cpt_pricing, url_cache>>
       ELSE LET done == Ingest(reply.body, source_name, FALSE)
            IN /\ url_cache' = Put(url_cache, url, reply.body)
               /\ cpt_pricing' = done.store
               /\ response' = Some([url |-> url, reply |-> Some(reply), result |-> done.result])
    /\ UNCHANGED <<sessions, persisted, call, result, fed, calls, prior, source1_rates, request,
                   batch_vars, rate_vars, stream, adapter_vars>>

FetchUrls == {"https://host/a.json.gz?Expires=1", "https://host/b.json"}
FetchNames == {"payerB", "Source"}

NextFetch ==
    \E url \in FetchUrls, source_name \in FetchNames, reply \in Replies : Fetch(url, source_name, reply)

SpecFetch == Init /\ [][NextFetch]_vars

\* the step is a request answered 403 with one of the two markers
DeniedWithMarker ==
    /\ response' # None
    /\ response'[1].reply # None
    /\ response'[1].reply[1].status_code = 403
    /\ HasMarker(response'[1].reply[1].body)

\* C30: a fetch that is answered access-denied with the AccessDenied or the
\* Expired marker returns the expired-link result, writes nothing to the URL
\* cache and leaves the store as it was.
C30_ExpiredLink ==
    [][DeniedWithMarker =>
          /\ response'[1].result = ExpiredResult
          /\ url_cache' = url_cache
          /\ cpt_pricing' = cpt_pricing]_vars

\* the expired-link result for a url while the source has pricing fetched
\* before from another url
C30_Witness ==
    /\ response # None
    /\ response[1].result = ExpiredResult
    /\ response[1].url = "https://host/a.json.gz?Expires=1"
    /\ ~Has(url_cache, "https://host/a.json.gz?Expires=1")
    /\ Has(url_cache, "https://host/b.json")
    /\ Has(cpt_pricing, "Source")

(***************************************************************************)
(* Two /upload_multipart_part requests served at the same time for one     *)
(* session.  The route and incremental_compare_part take no lock, and the  *)
(* server runs each request on a thread of its own; a thread can be        *)
(* suspended between any two statements.  The steps of a thread are: the   *)
(* entry of the call, the summary of an item of a baseline code, the read  *)
(* of the previous bucket, the update of the counts, the write of the new  *)
(* bucket, the tail.                                                       *)
(***************************************************************************)
Threads == {1, 2}
ThreadItems == { Item("A", "CPT", << Below >>), Item("A", "CPT", << Above >>) }

rest_of_threads == <<cpt_pricing, persisted, call, result, calls, prior, source1_rates, request,
                     batch_vars, rate_vars, route_vars, multipart_sessions>>

InitThreads ==
    /\ cpt_pricing = LoadedSources
    /\ sessions = EmptyMap
    /\ persisted = EmptyMap
    /\ call = Idle
    /\ result = "none"
    /\ fed = 0
    /\ calls = 0
    /\ prior = None
    /\ source1_rates = EmptyMap
    /\ request = None
    /\ cpt_data = << >>
    /\ report = None
    /\ rate_list = << >>
    /\ reduced = None
    /\ response = None
    /\ url_cache = EmptyMap
    /\ stream = None
    /\ threads = [t \in Threads |-> [pc |-> "waiting"]]
    /\ multipart_sessions = EmptyMap
    /\ estimator = None

\* the entry of incremental_compare_part up to the opening of the part
ThreadBegin(t) ==
    /\ threads[t].pc = "waiting"
    /\ sessions' = Put(sessions, "s1",
                       OpenPart(_get_or_create_incremental_session("s1", "Payer A", "payerB"),
                                "payerB", "max", None, FALSE))
    /\ threads' = [threads EXCEPT ![t] =
                     [pc |-> "loop", session_id |-> "s1", compare_rule |-> "max",
                      negotiated_type |-> None, exclude_expired |-> FALSE, as_of |-> Today,
                      part |-> t]]
    /\ UNCHANGED <<fed, rest_of_threads>>

\* the loop body for an item of a baseline code, down to the comp_item
ThreadSummarize(t, item) ==
    /\ threads[t].pc = "loop"
    /\ fed < MaxItems
    /\ fed' = fed + 1
    /\ LET code == Strip(item.billing_code)
           pre == MatchedPrefix(MarkSeen(sessions["s1"], code), item, code, "max", threads[t])
       IN /\ sessions' = [sessions EXCEPT !["s1"] = pre]
          /\ threads' = [threads EXCEPT ![t] =
                           [@ EXCEPT !.pc = "read"] @@
                           [code |-> code,
                            rate1_val |-> _finalize_source1_value(pre.source1_rate_summary[code], "max").value,
                            rate2_val |-> pre.baseline_rate_cache[code].value,
                            prev_bucket |-> None, prev_diff |-> 0]]
    /\ UNCHANGED rest_of_threads

\* prev_bucket = state['code_bucket'].get(billing_code) and prev_diff
ThreadReadPrevious(t) ==
    /\ threads[t].pc = "read"
    /\ LET state == sessions["s1"]
           code == threads[t].code
       IN threads' = [threads EXCEPT
                        ![t].pc = "count",
                        ![t].prev_bucket = IF Has(state.code_bucket, code)
                                           THEN Some(state.code_bucket[code]) ELSE None,
                        ![t].prev_diff = IF Has(state.code_diff_cache, code)
                                         THEN state.code_diff_cache[code] ELSE 0]
    /\ UNCHANGED <<sessions, fed, rest_of_threads>>

\* the previous bucket is taken out of the counts and the new one added
ThreadCount(t) ==
    /\ threads[t].pc = "count"
    /\ sessions' = [sessions EXCEPT !["s1"].comparison =
                      AddCurrent(SubtractPrevious(@, threads[t].prev_bucket, threads[t].prev_diff),
                                 threads[t].rate1_val, threads[t].rate2_val)]
    /\ threads' = [threads EXCEPT ![t].pc = "write"]
    /\ UNCHANGED <<fed, rest_of_threads>>

\* code_bucket, code_diff_cache and the samples are written
ThreadWrite(t) ==
    /\ threads[t].pc = "write"
    /\ LET c == threads[t]
           bucket == BucketOf(c.rate1_val, c.rate2_val)
       IN sessions' = [sessions EXCEPT
             !["s1"].code_bucket = Put(@, c.code, bucket),
             !["s1"].code_diff_cache = Put(@, c.code, c.rate1_val - c.rate2_val),
             !["s1"].sample_by_bucket =
                 UpdateSamples(@, c.code, bucket, CompItem(c.code, c.rate1_val, c.rate2_val))]
    /\ threads' = [threads EXCEPT ![t].pc = "loop"]
    /\ UNCHANGED <<fed, rest_of_threads>>

\* the part ends: the tail of the call and the snapshot
ThreadEnd(t) ==
    /\ threads[t].pc = "loop"
    /\ LET done == TailState(sessions["s1"], threads[t])
       IN /\ sessions' = [sessions EXCEPT !["s1"] = done]
          /\ persisted' = Put(persisted, "s1", _persist_incremental_session_summary(done))
    /\ threads' = [threads EXCEPT ![t].pc = "done"]
    /\ UNCHANGED <<cpt_pricing, call, result, fed, calls, prior, source1_rates, request,
                   batch_vars, rate_vars, route_vars, multipart_sessions>>

NextThreads ==
    \E t \in Threads :
        \/ ThreadBegin(t)
        \/ \E item \in ThreadItems : ThreadSummarize(t, item)
        \/ ThreadReadPrevious(t)
        \/ ThreadCount(t)
        \/ ThreadWrite(t)
        \/ ThreadEnd(t)

SpecThreads == InitThreads /\ [][NextThreads]_vars

\* the thread is inside its call
Running(t) == threads[t].pc \notin {"waiting", "done"}

\* no thread is between the summary of an item and the write of its bucket
BetweenItems == \A t \in Threads : threads[t].pc \in {"waiting", "loop", "done"}

\* C31: two requests on one session_id never run interleaved, and between
\* the items the bucket counts are the numbers of keys per bucket and the
\* amounts the sums of the stored diffs.
C31_Serialized ==
    /\ ~(Running(1) /\ Running(2))
    /\ BetweenItems => (C1_OneBucketPerMatchedCode /\ C2_AmountsAreSumsOfDiffs)

(***************************************************************************)
(* A baseline that is loaded again while a session compares against it.    *)
(* The loader builds cpt_data aside and assigns it to the store in one     *)
(* statement; the session reads the store at its first part only.          *)
(***************************************************************************)
ReloadItems ==
    { Described("A", "Office visit", << Above >>), Described("D", "Clinic visit", << Below >>) }

\* load_json_from_parts under the name while other requests run; response
\* keeps whether the bytes ended inside the document and whether the dict
\* was stored
Reload(source_name, truncated) ==
    /\ fed > 0
    /\ response = None
    /\ response' = Some([source_name |-> source_name, truncated |-> truncated,
                         stored |-> cpt_data # << >>])
    /\ cpt_pricing' = IF cpt_data = << >> THEN cpt_pricing ELSE Put(cpt_pricing, source_name, cpt_data)
    /\ cpt_data' = << >>
    /\ UNCHANGED <<sessions, persisted, call, result, fed, calls, prior, source1_rates, request,
                   report, rate_vars, url_cache, stream, adapter_vars>>

NextReload ==
    \/ \E item \in ReloadItems : response = None /\ AddEntry(item)
    \/ \E truncated \in BOOLEAN : Reload("payerB", truncated)
    \/ BeginPart("s1", "Payer A", "payerB", "max", "", FALSE, Today)
    \/ \E item \in FewItems : ProcessItem(item)
    \/ EndPart

SpecReload == Init /\ [][NextReload]_vars

\* the map under a name changes only by the assignment that ends a load, and
\* what is assigned came from a document read to its end
CompleteMaps ==
    /\ cpt_pricing' # cpt_pricing =>
          /\ response' # None /\ response = None
          /\ cpt_pricing' = Put(cpt_pricing, response'[1].source_name, cpt_data)
          /\ ~response'[1].truncated
    /\ \A sid \in DOMAIN sessions :
          sessions[sid].baseline_key_map # None =>
              sessions'[sid].baseline_key_map = sessions[sid].baseline_key_map

\* C32: the store entry of a name is absent, the previous complete map or
\* the new complete map, and a session keeps the baseline map it captured at
\* its first part when the name is loaded again between its parts.
C32_CompleteMaps == [][CompleteMaps]_vars

(***************************************************************************)
(* Signs of the counts and amounts of a session.                           *)
(***************************************************************************)
CountFields ==
    {"total_source1_count", "total_compared", "higher_in_source1_count", "higher_in_source2_count",
     "equal_count", "only_in_source1_count", "only_in_source2_count"}

\* C33: in every state of a session, a part that failed midway included,
\* every count and parts_processed is a non-negative integer and the two
\* amounts are not negative.
C33_NonNegative ==
    \A sid \in DOMAIN sessions :
        LET payload == _incremental_state_to_payload(sessions[sid])
        IN /\ \A f \in CountFields : payload.comparison[f] \in Nat
           /\ payload.parts_processed \in Nat
           /\ payload.comparison.total_higher_in_source1_amount >= 0
           /\ payload.comparison.total_higher_in_source2_amount >= 0

\* a part failed after it had replaced the difference of a code that the
\* part before had compared
C33_Witness ==
    /\ call.pc = "idle"
    /\ result = "Error during incremental comparison"
    /\ Has(sessions, "s1") /\ Has(persisted, "s1")
    /\ sessions["s1"].parts_processed = 1
    /\ persisted["s1"].comparison.total_higher_in_source2_amount = 30 * Scale
    /\ sessions["s1"].comparison.total_higher_in_source2_amount = 10 * Scale

(***************************************************************************)
(* _P2Quantile beyond its bootstrap phase, for the median (q = 0.5).       *)
(* Heights are floats in units of 1/Scale, a new height being rounded to   *)
(* the nearest unit; desired positions and their increments are kept in    *)
(* quarters (np = 1 + 2q, ... and di = q/2, q, (1+q)/2 are multiples of    *)
(* 1/4). Markers are numbered 1..5 here, 0..4 in the source.               *)
(***************************************************************************)
MaxStream == 1001
P2Values == {1, 10}

\* _P2Quantile.__init__
_P2Quantile ==
    [n |-> 0, initial |-> << >>, ni |-> <<0, 0, 0, 0, 0>>, np |-> <<0, 0, 0, 0, 0>>,
     di |-> <<0, 0, 0, 0, 0>>, qi |-> <<0, 0, 0, 0, 0>>]

\* num / den rounded to the nearest integer, for den > 0
RoundDiv(num, den) == (2 * num + den) \div (2 * den)

\* the bucket k of x among the marker heights (the source's k, 0..3)
BucketK(qi, x) ==
    IF x < qi[1] THEN 0
    ELSE IF x < qi[2] THEN 0
    ELSE IF x < qi[3] THEN 1
    ELSE IF x < qi[4] THEN 2
    ELSE 3

\* the end markers take x when it lies outside them
EndMarkers(qi, x) ==
    IF x < qi[1] THEN [qi EXCEPT ![1] = x]
    ELSE IF x < qi[5] THEN qi
    ELSE [qi EXCEPT ![5] = x]

\* the height and position of marker i are adjusted when its desired
\* position is a whole step away and the neighbour leaves room
AdjustMarker(p, i) ==
    LET d4 == p.np[i] - 4 * p.ni[i]
        qip1 == p.qi[i + 1]
        qi == p.qi[i]
        qim1 == p.qi[i - 1]
        nip1 == p.ni[i + 1]
        ni == p.ni[i]
        nim1 == p.ni[i - 1]
        s == IF d4 > 0 THEN 1 ELSE -1
        denom == nip1 - nim1
        num == s * ((ni - nim1 + s) * (qip1 - qi) * (ni - nim1) + (nip1 - ni - s) * (qi - qim1) * (nip1 - ni))
        den == denom * (nip1 - ni) * (ni - nim1)
        \* qp <= min(qim1, qip1) or qp >= max(qim1, qip1), on the exact quotient
        outside == \/ 0 - ((0 - num) \div den) <= Min2(qim1, qip1) - qi
                   \/ num \div den >= Max2(qim1, qip1) - qi
        qp == IF outside
              THEN qi + RoundDiv(p.qi[i + s] - qi, s * (p.ni[i + s] - ni))
              ELSE qi + RoundDiv(num, den)
    IN IF (d4 >= 4 /\ nip1 - ni > 1) \/ (d4 <= -4 /\ nim1 - ni < -1)
       THEN IF denom = 0 THEN p
            ELSE [p EXCEPT !.qi[i] = qp, !.ni[i] = ni + s]
       ELSE p

\* _P2Quantile.add
_P2Quantile_add(p, x) ==
    IF p.n + 1 <= P2Bootstrap
    THEN IF p.n + 1 = P2Bootstrap
         THEN LET sorted == SortSeq(Append(p.initial, x), LAMBDA a, b : a < b)
              IN [p EXCEPT !.n = p.n + 1, !.initial = sorted, !.qi = sorted,
                           !.ni = <<1, 2, 3, 4, 5>>, !.np = <<4, 8, 12, 16, 20>>,
                           !.di = <<0, 1, 2, 3, 4>>]
         ELSE [p EXCEPT !.n = p.n + 1, !.initial = Append(p.initial, x)]
    ELSE LET k == BucketK(p.qi, x)
             moved == [p EXCEPT !.n = p.n + 1,
                                !.qi = EndMarkers(p.qi, x),
                                !.ni = [i \in 1..5 |-> IF i > k + 1 THEN p.ni[i] + 1 ELSE p.ni[i]],
                                !.np = [i \in 1..5 |-> p.np[i] + p.di[i]]]
         IN AdjustMarker(AdjustMarker(AdjustMarker(moved, 2), 3), 4)

\* _P2Quantile.value
_P2Quantile_value(p) ==
    IF p.n = 0 THEN 0
    ELSE IF p.n <= P2Bootstrap THEN MedianOf(p.initial)
    ELSE p.qi[3]

\* the value of rank r (1-based) among the values added, from their counts
RECURSIVE RankedFrom(_, _, _)
RankedFrom(seen, r, v) ==
    IF seen[v] >= r THEN v
    ELSE RankedFrom(seen, r - seen[v], CHOOSE w \in DOMAIN seen : w > v /\ \A u \in DOMAIN seen : u > v => w <= u)
Ranked(seen, r) == RankedFrom(seen, r, CHOOSE v \in DOMAIN seen : \A u \in DOMAIN seen : v <= u)

\* the exact median of the values added, in units of 1/Scale
ExactMedian(seen, n) ==
    IF n % 2 = 1 THEN Ranked(seen, n \div 2 + 1) * Scale
    ELSE ((Ranked(seen, n \div 2) + Ranked(seen, n \div 2 + 1)) * Scale) \div 2

InitEstimator ==
    /\ cpt_pricing = EmptyMap
    /\ sessions = EmptyMap
    /\ persisted = EmptyMap
    /\ call = Idle
    /\ result = "none"
    /\ fed = 0
    /\ calls = 0
    /\ prior = None
    /\ source1_rates = EmptyMap
    /\ request = None
    /\ cpt_data = << >>
    /\ report = None
    /\ rate_list = << >>
    /\ reduced = None
    /\ response = None
    /\ url_cache = EmptyMap
    /\ stream = None
    /\ threads = EmptyMap
    /\ multipart_sessions = EmptyMap
    /\ estimator = Some([p2 |-> _P2Quantile, seen |-> [v \in P2Values |-> 0]])

\* p2.add(x): any value while the estimator collects its first samples, the
\* low and the high value in turn after that
Add(x) ==
    /\ estimator # None
    /\ estimator[1].p2.n < MaxStream
    /\ estimator[1].p2.n >= P2Bootstrap => x = (IF estimator[1].p2.n % 2 = 0 THEN 1 ELSE 10)
    /\ estimator' = Some([p2 |-> _P2Quantile_add(estimator[1].p2, x * Scale),
                          seen |-> [estimator[1].seen EXCEPT ![x] = @ + 1]])
    /\ UNCHANGED <<cpt_pricing, sessions, persisted, call, result, fed, calls, prior, source1_rates,
                   request, batch_vars, rate_list, reduced, route_vars, adapter_vars>>

NextEstimator == \E x \in P2Values : Add(x)

SpecEstimator == InitEstimator /\ [][NextEstimator]_vars

\* the distance between the estimate and the exact median
MedianError ==
    LET e == _P2Quantile_value(estimator[1].p2)
        m == ExactMedian(estimator[1].seen, estimator[1].p2.n)
    IN IF e >= m THEN e - m ELSE m - e

\* C34: after 1000 or more values the streaming median is within 2% of the
\* exact median of the values; for at most five values it is the exact
\* median.
C34_Within2Percent ==
    (estimator # None /\ estimator[1].p2.n >= 1) =>
        /\ estimator[1].p2.n >= 1000 =>
              50 * MedianError <= ExactMedian(estimator[1].seen, estimator[1].p2.n)
        /\ estimator[1].p2.n <= P2Bootstrap => MedianError = 0

(***************************************************************************)
(* The route /upload_multipart_part: add_multipart_part, then the          *)
(* incremental comparison of the stored part when a baseline is named.     *)
(* A stored path keeps, as history, the filename and the baseline of the   *)
(* request that stored it.                                                 *)
(***************************************************************************)
FileNames == {"part1.json", "parts/part1.json", "part2.json", " "}
UploadBaselines == {"", "payerB"}
UploadItems == { Item("A", "CPT", << Below >>) }

\* os.path.basename on the filenames the model uses
Basename(filename) ==
    CASE filename = "parts/part1.json" -> "part1.json"
      [] OTHER -> filename

\* os.path.basename(file_storage.filename or '').strip()
OriginalName(filename) == Strip(Basename(filename))

\* the request stored its part and has yet to call incremental_compare_part
UploadPending ==
    /\ response # None
    /\ response[1].compare
    /\ response[1].calls = calls

\* faulty variant: a filename is compared with the stored ones as it was sent
IsDuplicate_Raw(session, filename) ==
    OriginalName(filename) # "" /\ filename \in session.filenames

\* original_name and original_name in self.multipart_sessions[session_id]['filenames']
IsDuplicate(session, filename) ==
    OriginalName(filename) # "" /\ OriginalName(filename) \in session.filenames

\* upload_multipart_part up to the call of incremental_compare_part
AddPart(session_id, filename, baseline_source) ==
    /\ call.pc = "idle"
    /\ ~UploadPending
    /\ LET opened == IF Has(multipart_sessions, session_id) THEN multipart_sessions
                     ELSE Put(multipart_sessions, session_id,
                              [paths |-> << >>, source_name |-> "Payer A", filenames |-> {}])
           session == opened[session_id]
           original_name == OriginalName(filename)
       IN IF IsDuplicate(session, filename)
          THEN /\ multipart_sessions' = opened
               /\ response' = Some([success |-> TRUE, duplicate |-> TRUE, filename |-> filename,
                                   part_count |-> Len(session.paths), baseline_source |-> baseline_source,
                                   compare |-> FALSE, calls |-> calls])
          ELSE /\ Len(session.paths) < MaxParts
               /\ multipart_sessions' =
                     [opened EXCEPT ![session_id] =
                         [@ EXCEPT !.paths = Append(@, [filename |-> filename, baseline_source |-> baseline_source]),
                                   !.filenames = IF original_name # "" THEN @ \cup {original_name} ELSE @]]
               /\ response' = Some([success |-> TRUE, duplicate |-> FALSE, filename |-> filename,
                                   part_count |-> Len(session.paths) + 1, baseline_source |-> baseline_source,
                                   compare |-> baseline_source # "", calls |-> calls])
    /\ UNCHANGED <<cpt_pricing, sessions, persisted, call, result, fed, calls, prior, source1_rates,
                   request, batch_vars, rate_vars, url_cache, stream, threads>>

\* the call of incremental_compare_part by the request that stored the part
ComparePart(session_id) ==
    /\ UploadPending
    /\ BeginPart(session_id, multipart_sessions[session_id].source_name,
                 response[1].baseline_source, "max", "", FALSE, Today)

NextUpload ==
    \/ \E filename \in FileNames, baseline_source \in UploadBaselines : AddPart("s1", filename, baseline_source)
    \/ ComparePart("s1")
    \/ \E item \in UploadItems : ProcessItem(item)
    \/ StreamFail
    \/ EndPart

SpecUpload == Init /\ [][NextUpload]_vars

\* the filename was sent by a request whose part the session stored
AcceptedBefore(session_id, filename) ==
    /\ Has(multipart_sessions, session_id)
    /\ \E i \in 1..Len(multipart_sessions[session_id].paths) :
          multipart_sessions[session_id].paths[i].filename = filename

\* what a duplicate upload leaves alone, and its response
Ignored ==
    /\ multipart_sessions' = multipart_sessions
    /\ sessions' = sessions
    /\ persisted' = persisted
    /\ calls' = calls
    /\ response'[1].duplicate

\* C35: the upload of a part whose filename the session has accepted before
\* changes neither the stored paths nor the incremental session, and its
\* response is flagged as a duplicate.
C35_DuplicateIgnored ==
    [][\A filename \in FileNames, baseline_source \in UploadBaselines :
          (AcceptedBefore("s1", filename) /\ AddPart("s1", filename, baseline_source)) => Ignored]_vars

\* C35, amended: as C35 for a filename whose base name, trimmed, is not empty.
C35_NamedDuplicateIgnored ==
    [][\A filename \in FileNames, baseline_source \in UploadBaselines :
          (AcceptedBefore("s1", filename) /\ OriginalName(filename) # "" /\ AddPart("s1", filename, baseline_source))
             => Ignored]_vars

\* a part that was compared is uploaded again and answered as a duplicate
C35_Witness ==
    /\ Has(sessions, "s1")
    /\ sessions["s1"].parts_processed = 1
    /\ response # None
    /\ response[1].duplicate
    /\ AcceptedBefore("s1", response[1].filename)
    /\ Len(multipart_sessions["s1"].paths) = 1

(***************************************************************************)
(* The code sets of a session.                                             *)
(***************************************************************************)
SampleCodes(sample) == { sample[i].code : i \in 1..Len(sample) }

\* the seen codes are the matched and the only-in-Source-1 codes, which
\* share no code, and the counts and the sample agree with the sets
CodeSets(state) ==
    /\ state.seen_source1_codes = state.matched_baseline_codes \cup state.only_in_source1_codes
    /\ state.matched_baseline_codes \cap state.only_in_source1_codes = {}
    /\ state.comparison.total_source1_count = Cardinality(state.seen_source1_codes)
    /\ state.comparison.total_source1_count =
          Cardinality(state.matched_baseline_codes) + state.comparison.only_in_source1_count
    /\ Cardinality(SampleCodes(state.comparison.only_in_source1_sample)) =
          Len(state.comparison.only_in_source1_sample)
    /\ Len(state.comparison.only_in_source1_sample) <= incremental_only_in_source1_sample_limit

\* a code stays in the set it was put in
CodesStay ==
    \A sid \in DOMAIN sessions \cap DOMAIN sessions' :
        /\ sessions[sid].matched_baseline_codes \subseteq sessions'[sid].matched_baseline_codes
        /\ sessions[sid].only_in_source1_codes \subseteq sessions'[sid].only_in_source1_codes

\* C36: seen_source1_codes is the disjoint union of matched_baseline_codes
\* and only_in_source1_codes, total_source1_count is its size and the sum of
\* the matched codes and only_in_source1_count, no code changes its set, and
\* only_in_source1_sample lists a code once and stays within its limit.
C36_CodeSets ==
    /\ [](\A sid \in DOMAIN sessions : CodeSets(sessions[sid]))
    /\ [][CodesStay]_vars

(***************************************************************************)
(* Stored parts and compared parts of a multipart session.                 *)
(***************************************************************************)
PartsProcessed(session_id) ==
    IF Has(sessions, session_id) THEN sessions[session_id].parts_processed ELSE 0

\* every stored part came with a baseline, and no request is under way
UploadsCompared(session_id) ==
    /\ call.pc = "idle"
    /\ ~UploadPending
    /\ Has(multipart_sessions, session_id)
    /\ \A i \in 1..Len(multipart_sessions[session_id].paths) :
          multipart_sessions[session_id].paths[i].baseline_source # ""

\* the comparison of the part uploaded last has failed
LastComparisonFailed ==
    /\ call.pc = "idle"
    /\ response # None
    /\ response[1].compare
    /\ response[1].calls + 1 = calls
    /\ result = "Error during incremental comparison"

\* the part whose comparison failed is uploaded again and not ignored
RetryCompared ==
    \A baseline_source \in UploadBaselines :
        (LastComparisonFailed /\ AddPart("s1", response[1].filename, baseline_source))
            => ~response'[1].duplicate

\* C37: a part is remembered as stored only if its comparison succeeded:
\* when every upload named a baseline, parts_processed is the number of
\* stored paths, and a part whose comparison failed is compared, not
\* ignored, when it is uploaded again under the same filename.
C37_StoredOnlyIfCompared ==
    /\ [](UploadsCompared("s1") => PartsProcessed("s1") = Len(multipart_sessions["s1"].paths))
    /\ [][RetryCompared]_vars

(***************************************************************************)
(* Source 1 sent in parts to a session and, fully loaded under its name,   *)
(* compared by compare_pricing against the same baseline. stream holds the *)
(* items of the Source 1 document in file order.                           *)
(***************************************************************************)
ParityItems ==
    { Item("A", "CPT", << Below >>),
      Item("A", "CPT", << Above >>),
      Item("A", "CPT", << NotNumeric, Lapsed >>),
      Item("B", "CPT", << Negative >>),
      Item("B", "CPT", << >>),
      Item("C", "CPT", << Below, Above >>) }
ParityRules == {"max", "min", "avg", "all_classes"}

Documents == UNION { [1..n -> ParityItems] : n \in 0..MaxItems }

InitParity ==
    /\ \E in_network \in Documents :
          /\ stream = Some([in_network |-> in_network])
          /\ cpt_pricing = Put(LoadedSources, "Payer A", extract_cpt_pricing(in_network))
    /\ sessions = EmptyMap
    /\ persisted = EmptyMap
    /\ call = Idle
    /\ result = "none"
    /\ fed = 0
    /\ calls = 0
    /\ prior = None
    /\ source1_rates = EmptyMap
    /\ request = None
    /\ cpt_data = << >>
    /\ report = None
    /\ rate_list = << >>
    /\ reduced = None
    /\ response = None
    /\ url_cache = EmptyMap
    /\ threads = EmptyMap
    /\ multipart_sessions = EmptyMap
    /\ estimator = None

NextParity ==
    \/ \E rule \in ParityRules, f \in Filters :
          /\ RepeatsParameters("s1", rule, f)
          /\ BeginPart("s1", "Payer A", "payerB", rule, f.negotiated_type, f.exclude_expired, Today)
    \/ fed < Len(stream[1].in_network) /\ ProcessItem(stream[1].in_network[fed + 1])
    \/ EndPart

SpecParity == InitParity /\ [][NextParity]_vars

\* the filter a session recorded
SessionFilter(state) ==
    [negotiated_type |-> IF state.negotiated_type = None THEN "" ELSE state.negotiated_type[1],
     exclude_expired |-> state.exclude_expired[1]]

\* C38: under all_classes the per-class maxima a session keeps for a
\* baseline code are those of the baseline's rates after the session's
\* filter, as in the batch comparator.
C38_BaselineFiltered ==
    \A sid \in DOMAIN sessions :
        LET state == sessions[sid]
        IN IsAllClasses(state) =>
             \A code \in DOMAIN state.baseline_rate_cache :
                 state.baseline_rate_cache[code].classes =
                     _max_rate_by_class(_filter_rates(EntryOf(state.baseline_key_map[1], code).rates,
                                                      SessionFilter(state).negotiated_type,
                                                      SessionFilter(state).exclude_expired, Today))

(***************************************************************************)
(* The session after the last part against the batch comparison of the     *)
(* fully loaded Source 1.                                                  *)
(***************************************************************************)
\* the bucket whose list of the batch report holds the key
BatchBucket(comparison, key) ==
    IF \E i \in 1..Len(comparison.higher_in_source1) : comparison.higher_in_source1[i].key = key
    THEN "higher_in_source1"
    ELSE IF \E i \in 1..Len(comparison.higher_in_source2) : comparison.higher_in_source2[i].key = key
    THEN "higher_in_source2"
    ELSE IF \E i \in 1..Len(comparison.equal) : comparison.equal[i].key = key
    THEN "equal"
    ELSE "none"

\* every item of the document went through a part that ended well
AllPartsProcessed ==
    /\ call.pc = "idle"
    /\ result = "Success"
    /\ Has(sessions, "s1")
    /\ fed = Len(stream[1].in_network)

\* the counts, amounts and buckets of the session are those of the batch
\* comparison under the session's rule and filter
SameAsBatch(state) ==
    LET batch == compare_pricing("Payer A", "payerB", state.compare_rule[1], SessionFilter(state), Today)[1]
        comparison == state.comparison
    IN /\ comparison.total_compared = batch.total_compared
       /\ comparison.higher_in_source1_count = Len(batch.higher_in_source1)
       /\ comparison.higher_in_source2_count = Len(batch.higher_in_source2)
       /\ comparison.equal_count = Len(batch.equal)
       /\ comparison.total_higher_in_source1_amount = batch.total_higher_in_source1_amount
       /\ comparison.total_higher_in_source2_amount = batch.total_higher_in_source2_amount
       /\ \A code \in Codes(state.baseline_key_map[1]) \cap Codes(cpt_pricing["Payer A"]) :
             /\ Has(state.code_bucket, code)
             /\ state.code_bucket[code] = BatchBucket(batch, << code >>)

\* C39: under max, min and avg with the same filter, once every part is
\* processed the session's total_compared, bucket counts, amounts and the
\* bucket of every key are those of the batch comparator on the fully
\* loaded Source 1 against the same baseline.
C39_SameAsBatch ==
    (AllPartsProcessed /\ sessions["s1"].compare_rule[1] \in {"max", "min", "avg"})
        => SameAsBatch(sessions["s1"])

\* a code sent in two parts, lower than the baseline in the first and higher
\* in the second
C39_Witness ==
    /\ AllPartsProcessed
    /\ sessions["s1"].compare_rule[1] \in {"max", "min", "avg"}
    /\ sessions["s1"].parts_processed = 2
    /\ stream[1].in_network = << Item("A", "CPT", << Below >>), Item("A", "CPT", << Above >>) >>
    /\ sessions["s1"].code_bucket["A"] = "higher_in_source1"

(***************************************************************************)
(* Parts sent with a rule that streaming does not support.                 *)
(***************************************************************************)
UnsupportedRules == {"context", "mode"}
UnsupportedItems == { Item("A", "CPT", << Below >>), Item("C", "CPT", << Level >>) }

NextUnsupported ==
    \/ \E rule \in UnsupportedRules \cup {"max"} :
          BeginPart("s1", "Payer A", "payerB", rule, "", FALSE, Today)
    \/ \E item \in UnsupportedItems : ProcessItem(item)
    \/ EndPart

SpecUnsupported == Init /\ [][NextUnsupported]_vars

\* a finished call with an unsupported rule has failed, and no session has
\* recorded such a rule
Rejected ==
    /\ (call.pc = "idle" /\ request # None /\ InitSummaryRaises(request[1].compare_rule))
          => result # "Success"
    /\ \A sid \in DOMAIN sessions :
          sessions[sid].compare_rule = None \/ ~InitSummaryRaises(sessions[sid].compare_rule[1])

\* a call with an unsupported rule adds no code to the seen set
NothingSeen ==
    (call.pc = "streaming" /\ InitSummaryRaises(call.compare_rule)) =>
        sessions'[call.session_id].seen_source1_codes = sessions[call.session_id].seen_source1_codes

\* C40: a part sent with a compare_rule that streaming does not support
\* fails on every input and leaves the session as it was: the rule is not
\* recorded and no code is added to the seen set, so a later call with a
\* supported rule is accepted.
C40_UnsupportedRejected == []Rejected /\ [][NothingSeen]_vars

====
